---- MODULE Spec2Model ----
(***************************************************************************)
(* Model of the workflow merge engine (backend/app/core/engine.py).        *)
(*                                                                         *)
(* A run of WorkflowEngine.execute is a small state machine: Start         *)
(* resolves the configuration and the key universe, ProcessRow evaluates   *)
(* every output column for one key value, Finish assembles the output      *)
(* table and the unmatched-key summary warnings.  Rerun executes the same  *)
(* engine object again on the same tables.                                 *)
(*                                                                         *)
(* Text is a sequence of one-character strings so that str().strip() and   *)
(* float() are computed, not assumed.  A float is a normalised fraction    *)
(* n/d (rounding of binary floating point is not modelled).                *)
(***************************************************************************)
EXTENDS Integers, Sequences, FiniteSets, TLC

\* --------------------------------------------------------------- bounds
MaxRows == 2
MaxRuns == 2
MaxOperands == 2
MaxParts == 2
\* rows of the table whose keys mostly match nothing
ManyRows == 12

\* ------------------------------------------------------ program constants
\* engine.py:275  "if len(unmatched_keys_by_file[file_id]) < 10"
UnmatchedCap == 10
\* engine.py:305  "unmatched_keys[:5]"
SampleLimit == 5

\* ------------------------------------------------------------ cell values
\* A cell of a DataFrame, a literal of the configuration or an output cell.
NullCell == [t |-> "null", n |-> 0, d |-> 1, s |-> <<>>]
IntCell(n) == [t |-> "int", n |-> n, d |-> 1, s |-> <<>>]
TextCell(s) == [t |-> "text", n |-> 0, d |-> 1, s |-> s]

Abs(x) == IF x < 0 THEN -x ELSE x

RECURSIVE GCD(_, _)
GCD(a, b) == IF b = 0 THEN a ELSE GCD(b, a % b)

\* A Python float, kept as the fraction n/d in lowest terms with d > 0.
FloatCell(n, d) ==
  LET g == GCD(Abs(n), Abs(d))
      sgn == IF d < 0 THEN -1 ELSE 1
  IN [t |-> "float", n |-> (sgn * n) \div g, d |-> (sgn * d) \div g, s |-> <<>>]

\* pd.isna / pd.notna
IsNa(c) == c.t = "null"

\* ----------------------------------------------------------------- text
Whitespace == {" "}
DigitChars == <<"0", "1", "2", "3", "4", "5", "6", "7", "8", "9">>

RECURSIVE LStrip(_)
LStrip(s) == IF s = <<>> THEN s
             ELSE IF Head(s) \in Whitespace THEN LStrip(Tail(s)) ELSE s

RECURSIVE RStrip(_)
RStrip(s) == IF s = <<>> THEN s
             ELSE IF s[Len(s)] \in Whitespace THEN RStrip(SubSeq(s, 1, Len(s) - 1)) ELSE s

\* str.strip()
Strip(s) == RStrip(LStrip(s))

RECURSIVE NatStr(_)
NatStr(n) == IF n < 10 THEN <<DigitChars[n + 1]>>
             ELSE NatStr(n \div 10) \o <<DigitChars[(n % 10) + 1]>>

IntStr(n) == IF n < 0 THEN <<"-">> \o NatStr(-n) ELSE NatStr(n)

\* str(value) of a cell: an int prints its digits, an integral float prints
\* "<digits>.0", NaN prints "nan", text is itself.
Str(c) ==
  CASE c.t = "text" -> c.s
    [] c.t = "int" -> IntStr(c.n)
    [] c.t = "float" -> IntStr(c.n) \o <<".", "0">>
    [] OTHER -> <<"n", "a", "n">>

IsDigit(ch) == \E i \in 1..10 : DigitChars[i] = ch
DigitVal(ch) == (CHOOSE i \in 1..10 : DigitChars[i] = ch) - 1

RECURSIVE DigitsVal(_)
DigitsVal(s) == IF s = <<>> THEN 0
                ELSE 10 * DigitsVal(SubSeq(s, 1, Len(s) - 1)) + DigitVal(s[Len(s)])

AllDigits(s) == s # <<>> /\ \A i \in 1..Len(s) : IsDigit(s[i])

\* float(value): [ok, n, d]; ok = FALSE stands for ValueError/TypeError.
\* Text parses when, stripped, it is an optionally signed run of digits.
ToFloat(c) ==
  CASE c.t = "int" -> [ok |-> TRUE, n |-> c.n, d |-> 1]
    [] c.t = "float" -> [ok |-> TRUE, n |-> c.n, d |-> c.d]
    [] c.t = "text" ->
         LET u == Strip(c.s)
             neg == u # <<>> /\ Head(u) = "-"
             body == IF neg THEN Tail(u) ELSE u
         IN IF AllDigits(body)
            THEN [ok |-> TRUE, n |-> IF neg THEN -DigitsVal(body) ELSE DigitsVal(body), d |-> 1]
            ELSE [ok |-> FALSE, n |-> 0, d |-> 1]
    [] OTHER -> [ok |-> FALSE, n |-> 0, d |-> 1]

\* ------------------------------------------------------------ sequences
Range(s) == {s[i] : i \in DOMAIN s}

RECURSIVE SeqsUpTo(_, _)
SeqsUpTo(S, n) == IF n = 0 THEN {<<>>}
                  ELSE LET R == SeqsUpTo(S, n - 1)
                       IN R \cup {Append(r, x) : r \in {q \in R : Len(q) = n - 1}, x \in S}

\* every ordering of a finite set, as sequences without repetition
Orderings(S) ==
  {f \in [1..Cardinality(S) -> S] : \A i, j \in 1..Cardinality(S) : f[i] = f[j] => i = j}

\* ----------------------------------------------------------- dataframes
\* The dataframes argument is a dict in insertion order: a sequence of
\* [id, cols, rows]; a row maps every column name to a cell.
HasDf(dfs, file_id) == \E i \in DOMAIN dfs : dfs[i].id = file_id
GetDf(dfs, file_id) == dfs[CHOOSE i \in DOMAIN dfs : dfs[i].id = file_id]
DfIds(dfs) == {dfs[i].id : i \in DOMAIN dfs}
HasColumn(df, col) == \E i \in DOMAIN df.cols : df.cols[i] = col

\* key_mappings.get(file_id); a missing entry and "" are both falsy
NoCol == <<>>
MapGet(m, file_id) == IF file_id \in DOMAIN m THEN m[file_id] ELSE NoCol

\* ------------------------------------------------------------- warnings
Warning(kind, file, col, count, keys, more) ==
  [kind |-> kind, file |-> file, col |-> col, count |-> count, keys |-> keys, more |-> more]
SimpleWarning(kind) == Warning(kind, "", <<>>, 0, <<>>, 0)

\* ------------------------------------------------------- key resolution
\* df[key_column].dropna() followed by str(v).strip(), in row order
RECURSIVE CleanedFrom(_, _, _)
CleanedFrom(df, col, i) ==
  IF i > Len(df.rows) THEN <<>>
  ELSE LET c == df.rows[i][col]
       IN IF IsNa(c) THEN CleanedFrom(df, col, i + 1)
          ELSE <<Strip(Str(c))>> \o CleanedFrom(df, col, i + 1)

CleanedColumn(df, col) == CleanedFrom(df, col, 1)

\* UniqueKeys that forgets the "k not in seen" test
RECURSIVE UniqueKeysNoDedup(_, _)
UniqueKeysNoDedup(cleaned, seen) ==
  IF cleaned = <<>> THEN <<>>
  ELSE IF Head(cleaned) # <<>>
  THEN <<Head(cleaned)>> \o UniqueKeysNoDedup(Tail(cleaned), seen)
  ELSE UniqueKeysNoDedup(Tail(cleaned), seen)

\* "for k in cleaned: if k and k not in seen": drop "" and later duplicates
RECURSIVE UniqueKeys(_, _)
UniqueKeys(cleaned, seen) ==
  IF cleaned = <<>> THEN <<>>
  ELSE LET k == Head(cleaned)
       IN IF k # <<>> /\ k \notin seen
          THEN <<k>> \o UniqueKeys(Tail(cleaned), seen \cup {k})
          ELSE UniqueKeys(Tail(cleaned), seen)

\* set(k for k in df[col].dropna().astype(str).str.strip().unique() if k)
KeySet(df, col) == {k \in Range(CleanedColumn(df, col)) : k # <<>>}

KeysResult(ok, options, warns) == [ok |-> ok, options |-> options, warns |-> warns]

\* _get_keys_from_file: the ordered, deduplicated keys of one file
_get_keys_from_file(file_id, key_mappings, dfs) ==
  IF ~HasDf(dfs, file_id)
  THEN KeysResult(FALSE, {}, <<Warning("file_not_found", file_id, <<>>, 0, <<>>, 0)>>)
  ELSE LET key_column == MapGet(key_mappings, file_id)
           df == GetDf(dfs, file_id)
       IN IF key_column = NoCol
          THEN KeysResult(FALSE, {}, <<Warning("no_key_mapping", file_id, <<>>, 0, <<>>, 0)>>)
          ELSE IF ~HasColumn(df, key_column)
          THEN KeysResult(FALSE, {}, <<Warning("key_column_not_found", "", key_column, 0, <<>>, 0)>>)
          ELSE KeysResult(TRUE, {UniqueKeys(CleanedColumn(df, key_column), {})}, <<>>)

\* the files of the dataframes dict that have a key column entry naming one
\* of their columns ("if key_column and key_column in df.columns")
KeyedFiles(key_mappings, dfs) ==
  {i \in DOMAIN dfs : /\ MapGet(key_mappings, dfs[i].id) # NoCol
                      /\ HasColumn(dfs[i], MapGet(key_mappings, dfs[i].id))}

FileKeySet(key_mappings, df) == KeySet(df, MapGet(key_mappings, df.id))

\* _get_intersection_keys that unites the key sets instead of intersecting them
IntersectionKeysAsUnion(key_mappings, dfs) ==
  LET keyed == {i \in DOMAIN dfs : /\ MapGet(key_mappings, dfs[i].id) # NoCol
                                   /\ HasColumn(dfs[i], MapGet(key_mappings, dfs[i].id))}
  IN IF keyed = {}
     THEN KeysResult(FALSE, {}, <<SimpleWarning("no_valid_key_columns")>>)
     ELSE KeysResult(TRUE,
            Orderings(UNION {KeySet(dfs[i], MapGet(key_mappings, dfs[i].id)) : i \in keyed}), <<>>)

\* _get_intersection_keys: list(set) has no defined order (string hashing is
\* salted per process), so every ordering of the set is a possible result.
_get_intersection_keys(key_mappings, dfs) ==
  LET keyed == KeyedFiles(key_mappings, dfs)
      universe == UNION {FileKeySet(key_mappings, dfs[i]) : i \in keyed}
      intersection == {k \in universe : \A i \in keyed : k \in FileKeySet(key_mappings, dfs[i])}
  IN IF keyed = {}
     THEN KeysResult(FALSE, {}, <<SimpleWarning("no_valid_key_columns")>>)
     ELSE KeysResult(TRUE, Orderings(intersection), <<>>)

\* _get_union_keys that keeps only the keys of the first keyed file
UnionKeysFirstFileOnly(key_mappings, dfs) ==
  LET keyed == {i \in DOMAIN dfs : /\ MapGet(key_mappings, dfs[i].id) # NoCol
                                   /\ HasColumn(dfs[i], MapGet(key_mappings, dfs[i].id))}
      all_keys == IF keyed = {} THEN {}
                  ELSE LET i == CHOOSE x \in keyed : \A y \in keyed : x <= y
                       IN KeySet(dfs[i], MapGet(key_mappings, dfs[i].id))
  IN IF all_keys = {}
     THEN KeysResult(FALSE, {}, <<SimpleWarning("no_valid_key_columns")>>)
     ELSE KeysResult(TRUE, Orderings(all_keys), <<>>)

\* _get_union_keys: an empty union is reported like "no key columns"
_get_union_keys(key_mappings, dfs) ==
  LET keyed == KeyedFiles(key_mappings, dfs)
      all_keys == UNION {FileKeySet(key_mappings, dfs[i]) : i \in keyed}
  IN IF all_keys = {}
     THEN KeysResult(FALSE, {}, <<SimpleWarning("no_valid_key_columns")>>)
     ELSE KeysResult(TRUE, Orderings(all_keys), <<>>)

NoFile == ""

\* _get_key_values_for_join_type whose right join reads the primary file
JoinTypeRightUsesPrimary(join_type, primary_file_id, key_mappings, dfs, files_config) ==
  CASE join_type = "inner" -> _get_intersection_keys(key_mappings, dfs)
    [] join_type = "full" -> _get_union_keys(key_mappings, dfs)
    [] OTHER -> _get_keys_from_file(primary_file_id, key_mappings, dfs)

\* _get_key_values_for_join_type whose else branch takes the keys of all files
JoinTypeDefaultsToFull(join_type, primary_file_id, key_mappings, dfs, files_config) ==
  CASE join_type = "inner" -> _get_intersection_keys(key_mappings, dfs)
    [] join_type = "left" -> _get_keys_from_file(primary_file_id, key_mappings, dfs)
    [] join_type = "right" ->
         LET last_file_id == IF files_config # <<>>
                             THEN files_config[Len(files_config)].id ELSE NoFile
         IN IF last_file_id # NoFile
            THEN _get_keys_from_file(last_file_id, key_mappings, dfs)
            ELSE KeysResult(FALSE, {}, <<SimpleWarning("no_files_for_right_join")>>)
    [] join_type = "full" -> _get_union_keys(key_mappings, dfs)
    [] OTHER -> _get_union_keys(key_mappings, dfs)

\* _get_key_values_for_join_type
_get_key_values_for_join_type(join_type, primary_file_id, key_mappings, dfs, files_config) ==
  CASE join_type = "inner" -> _get_intersection_keys(key_mappings, dfs)
    [] join_type = "left" -> _get_keys_from_file(primary_file_id, key_mappings, dfs)
    [] join_type = "right" ->
         LET last_file_id == IF files_config # <<>>
                             THEN files_config[Len(files_config)].id ELSE NoFile
         IN IF last_file_id # NoFile
            THEN _get_keys_from_file(last_file_id, key_mappings, dfs)
            ELSE KeysResult(FALSE, {}, <<SimpleWarning("no_files_for_right_join")>>)
    [] join_type = "full" -> _get_union_keys(key_mappings, dfs)
    [] OTHER -> _get_keys_from_file(primary_file_id, key_mappings, dfs)

\* ------------------------------------------------------ row correspondence
NoRow == [present |-> FALSE, cols |-> <<>>, cells |-> <<>>]
RowOf(df, i) == [present |-> TRUE, cols |-> df.cols, cells |-> df.rows[i]]

\* file_rows.get(file_id)
GetRow(file_rows, file_id) ==
  IF file_id \in DOMAIN file_rows THEN file_rows[file_id] ELSE NoRow

\* "column in row.index"
InIndex(row, col) == \E i \in DOMAIN row.cols : row.cols[i] = col

\* MatchingRows that compares the raw key cell, without stripping it
MatchingRowsUnstripped(df, file_key_col, key_value) ==
  {i \in DOMAIN df.rows : Str(df.rows[i][file_key_col]) = Strip(key_value)}

\* rows of df whose stringified, stripped key cell equals the stripped key
MatchingRows(df, file_key_col, key_value) ==
  {i \in DOMAIN df.rows : Strip(Str(df.rows[i][file_key_col])) = Strip(key_value)}

Min(S) == CHOOSE x \in S : \A y \in S : x <= y

\* ----------------------------------------------------- column evaluation
\* the result of evaluating one cell: the value, the warnings it appended,
\* and whether the evaluation raised
CellResult(value, warns) == [raised |-> FALSE, value |-> value, warns |-> warns]
CellRaised == [raised |-> TRUE, value |-> NullCell, warns |-> <<>>]

\* _compute_direct
_compute_direct(source, file_rows) ==
  IF source.fileId = NoFile \/ source.column = NoCol THEN CellResult(NullCell, <<>>)
  ELSE LET row == GetRow(file_rows, source.fileId)
       IN IF ~row.present THEN CellResult(NullCell, <<>>)
          ELSE IF InIndex(row, source.column)
          THEN CellResult(row.cells[source.column], <<>>)
          ELSE CellResult(NullCell, <<>>)

\* str(part.get("value", "")): a null literal prints as "None"
LiteralStr(v) == IF v.t = "null" THEN <<"N", "o", "n", "e">> ELSE Str(v)

\* what one concat part appends to result_parts (nothing for an unknown type)
ConcatPart(part, file_rows) ==
  IF part.type = "literal" THEN <<LiteralStr(part.value)>>
  ELSE IF part.type = "column"
  THEN IF part.fileId # NoFile /\ part.column # NoCol
       THEN LET row == GetRow(file_rows, part.fileId)
            IN IF row.present /\ InIndex(row, part.column)
               THEN LET value == row.cells[part.column]
                    IN IF ~IsNa(value) THEN <<Str(value)>> ELSE << <<>> >>
               ELSE << <<>> >>
       ELSE << <<>> >>
  ELSE <<>>

RECURSIVE ConcatParts(_, _)
ConcatParts(parts, file_rows) ==
  IF parts = <<>> THEN <<>>
  ELSE ConcatPart(Head(parts), file_rows) \o ConcatParts(Tail(parts), file_rows)

\* separator.join(result_parts)
RECURSIVE Join(_, _)
Join(sep, strs) ==
  IF strs = <<>> THEN <<>>
  ELSE IF Len(strs) = 1 THEN strs[1]
  ELSE strs[1] \o sep \o Join(sep, Tail(strs))

\* source.get("separator", ""): "" when the key is absent, else its value
SeparatorOf(source) == IF source.hasSeparator THEN source.separator ELSE TextCell(<<>>)

\* _compute_concat; None.join raises AttributeError
_compute_concat(source, file_rows) ==
  LET separator == SeparatorOf(source)
      result_parts == ConcatParts(source.parts, file_rows)
  IN IF separator.t # "text" THEN CellRaised
     ELSE CellResult(TextCell(Join(separator.s, result_parts)), <<>>)

\* floats as fractions
Rat(n, d) == LET c == FloatCell(n, d) IN [n |-> c.n, d |-> c.d]
RatZero == [n |-> 0, d |-> 1]
RatOne == [n |-> 1, d |-> 1]
RatAdd(a, b) == Rat(a.n * b.d + b.n * a.d, a.d * b.d)
RatSub(a, b) == Rat(a.n * b.d - b.n * a.d, a.d * b.d)
RatMul(a, b) == Rat(a.n * b.n, a.d * b.d)
RatDiv(a, b) == Rat(a.n * b.d, a.d * b.n)

\* FloatOrZero whose except branch yields 1.0
FloatOrOne(c) == LET f == ToFloat(c) IN IF f.ok THEN Rat(f.n, f.d) ELSE RatOne

\* float(cell_value) with "except (ValueError, TypeError): 0.0"
FloatOrZero(c) == LET f == ToFloat(c) IN IF f.ok THEN Rat(f.n, f.d) ELSE RatZero

\* the column-name fallback of _compute_math: the first column of the row
\* whose stripped name equals the stripped operand column and whose cell is
\* not NaN; 0.0 when there is none
FallbackValue(row, column) ==
  LET hits == {i \in DOMAIN row.cols : /\ Strip(row.cols[i]) = Strip(column)
                                       /\ ~IsNa(row.cells[row.cols[i]])}
  IN IF hits = {} THEN RatZero ELSE FloatOrZero(row.cells[row.cols[Min(hits)]])

\* what one operand appends to values: nothing for a literal without a
\* value or an unknown operand type
OperandValues(operand, file_rows) ==
  IF operand.type = "literal"
  THEN IF operand.value.t # "null" THEN <<FloatOrZero(operand.value)>> ELSE <<>>
  ELSE IF operand.type = "column"
  THEN IF operand.fileId # NoFile /\ operand.column # NoCol
       THEN LET row == GetRow(file_rows, operand.fileId)
            IN IF row.present
               THEN IF InIndex(row, operand.column)
                    THEN LET cell_value == row.cells[operand.column]
                         IN IF ~IsNa(cell_value) THEN <<FloatOrZero(cell_value)>>
                            ELSE <<RatZero>>
                    ELSE <<FallbackValue(row, operand.column)>>
               ELSE <<RatZero>>
       ELSE <<RatZero>>
  ELSE <<>>

RECURSIVE MathValues(_, _)
MathValues(operands, file_rows) ==
  IF operands = <<>> THEN <<>>
  ELSE OperandValues(Head(operands), file_rows) \o MathValues(Tail(operands), file_rows)

RECURSIVE FoldAdd(_, _)
FoldAdd(acc, vs) == IF vs = <<>> THEN acc ELSE FoldAdd(RatAdd(acc, Head(vs)), Tail(vs))

\* FoldSub that adds
RECURSIVE FoldSubAdds(_, _)
FoldSubAdds(acc, vs) ==
  IF vs = <<>> THEN acc ELSE FoldSubAdds(RatAdd(acc, Head(vs)), Tail(vs))

RECURSIVE FoldSub(_, _)
FoldSub(acc, vs) == IF vs = <<>> THEN acc ELSE FoldSub(RatSub(acc, Head(vs)), Tail(vs))

\* FoldMul that adds
RECURSIVE FoldMulAdds(_, _)
FoldMulAdds(acc, vs) ==
  IF vs = <<>> THEN acc ELSE FoldMulAdds(RatAdd(acc, Head(vs)), Tail(vs))

RECURSIVE FoldMul(_, _)
FoldMul(acc, vs) == IF vs = <<>> THEN acc ELSE FoldMul(RatMul(acc, Head(vs)), Tail(vs))

\* FoldDiv that skips a zero divisor instead of giving up
RECURSIVE FoldDivSkipsZero(_, _)
FoldDivSkipsZero(acc, vs) ==
  IF vs = <<>> THEN [ok |-> TRUE, value |-> acc]
  ELSE IF Head(vs).n = 0 THEN FoldDivSkipsZero(acc, Tail(vs))
  ELSE FoldDivSkipsZero(RatDiv(acc, Head(vs)), Tail(vs))

\* the divide loop: [ok, value]; ok = FALSE when a divisor is 0
RECURSIVE FoldDiv(_, _)
FoldDiv(acc, vs) ==
  IF vs = <<>> THEN [ok |-> TRUE, value |-> acc]
  ELSE IF Head(vs).n = 0 THEN [ok |-> FALSE, value |-> acc]
  ELSE FoldDiv(RatDiv(acc, Head(vs)), Tail(vs))

RatCell(r) == FloatCell(r.n, r.d)

\* _compute_math
_compute_math(source, file_rows) ==
  LET operation == source.operation
      operands == source.operands
      values == MathValues(operands, file_rows)
  IN IF operands = <<>> THEN CellResult(NullCell, <<>>)
     ELSE IF values = <<>> THEN CellResult(NullCell, <<>>)
     ELSE CASE operation = "add" -> CellResult(RatCell(FoldAdd(RatZero, values)), <<>>)
            [] operation = "subtract" ->
                 CellResult(RatCell(FoldSub(values[1], Tail(values))), <<>>)
            [] operation = "multiply" -> CellResult(RatCell(FoldMul(RatOne, values)), <<>>)
            [] operation = "divide" ->
                 LET r == FoldDiv(values[1], Tail(values))
                 IN IF r.ok THEN CellResult(RatCell(r.value), <<>>)
                    ELSE CellResult(NullCell, <<SimpleWarning("division_by_zero")>>)
            [] OTHER -> CellResult(NullCell, <<>>)

\* _compute_column_value
_compute_column_value(source, file_rows) ==
  CASE source.type = "direct" -> _compute_direct(source, file_rows)
    [] source.type = "concat" -> _compute_concat(source, file_rows)
    [] source.type = "math" -> _compute_math(source, file_rows)
    [] source.type = "custom" -> CellResult(TextCell(source.defaultValue), <<>>)
    [] OTHER -> CellResult(NullCell, <<>>)

\* -------------------------------------------------------- configuration
\* a column source is a tagged record; fields a kind does not use are empty
DirectSource(f, c) ==
  [type |-> "direct", fileId |-> f, column |-> c, parts |-> <<>>, hasSeparator |-> FALSE,
   separator |-> NullCell, operation |-> "", operands |-> <<>>, defaultValue |-> <<>>]
ConcatSource(parts, hasSeparator, separator) ==
  [type |-> "concat", fileId |-> NoFile, column |-> NoCol, parts |-> parts,
   hasSeparator |-> hasSeparator, separator |-> separator, operation |-> "",
   operands |-> <<>>, defaultValue |-> <<>>]
MathSource(operation, operands) ==
  [type |-> "math", fileId |-> NoFile, column |-> NoCol, parts |-> <<>>, hasSeparator |-> FALSE,
   separator |-> NullCell, operation |-> operation, operands |-> operands, defaultValue |-> <<>>]
CustomSource(v) ==
  [type |-> "custom", fileId |-> NoFile, column |-> NoCol, parts |-> <<>>, hasSeparator |-> FALSE,
   separator |-> NullCell, operation |-> "", operands |-> <<>>, defaultValue |-> v]

\* a concat part or a math operand
LiteralRef(v) == [type |-> "literal", fileId |-> NoFile, column |-> NoCol, value |-> v]
ColumnRef(f, c) == [type |-> "column", fileId |-> f, column |-> c, value |-> NullCell]

OutputColumn(name, order, source) == [name |-> name, order |-> order, source |-> source]

NoKeyColumn == [present |-> FALSE, mappings |-> [f \in {} |-> NoCol]]
KeyColumn(mappings) == [present |-> TRUE, mappings |-> mappings]
NoJoinConfig == [present |-> FALSE, joinType |-> "", primaryFileId |-> NoFile]
JoinConfig(joinType, primaryFileId) ==
  [present |-> TRUE, joinType |-> joinType, primaryFileId |-> primaryFileId]

\* sorted(self.output_columns, key=order): a stable insertion sort
RECURSIVE InsertByOrder(_, _)
InsertByOrder(sorted, c) ==
  IF sorted = <<>> THEN <<c>>
  ELSE IF Head(sorted).order <= c.order THEN <<Head(sorted)>> \o InsertByOrder(Tail(sorted), c)
  ELSE <<c>> \o sorted

RECURSIVE SortByOrder(_)
SortByOrder(cols) ==
  IF cols = <<>> THEN <<>>
  ELSE InsertByOrder(SortByOrder(SubSeq(cols, 1, Len(cols) - 1)), cols[Len(cols)])

\* the keys of the dict {col["name"]: [] for col in sorted_columns}, in
\* insertion order: a repeated name keeps its first position
RECURSIVE FirstNames(_, _)
FirstNames(cols, seen) ==
  IF cols = <<>> THEN <<>>
  ELSE IF Head(cols).name \in seen THEN FirstNames(Tail(cols), seen)
  ELSE <<Head(cols).name>> \o FirstNames(Tail(cols), seen \cup {Head(cols).name})

\* ---------------------------------------------------------------- state
\* config and dataframes are the inputs; pc .. output_df are the position and
\* the locals of the running call; calls counts the calls made so far and
\* previous holds what the preceding call handed back (empty before it);
\* preview_result holds what preview made of the result of execute
VARIABLES config, dataframes, pc, key_values, idx, output_data,
          unmatched_keys_by_file, warnings, output_df, calls, previous, preview_result

\* the diff generator and the runs API: original_df .. key_column are the
\* arguments of the diff generator, changes the change list (an argument of
\* generate, the result of compare_dataframes), diff_result what generate
\* returned and diff_pc its position; workflows and runs are the database
\* tables, audit_log the audit_logs table and response the last HTTP response
VARIABLES original_df, modified_df, changes, key_column, diff_result, diff_pc,
          workflows, runs, audit_log, response

engineVars == <<config, dataframes, pc, key_values, idx, output_data,
                unmatched_keys_by_file, warnings, output_df, calls, previous, preview_result>>
ruleVars == <<original_df, modified_df, changes, key_column, diff_result, diff_pc,
              workflows, runs, audit_log, response>>
vars == <<engineVars, ruleVars>>

EmptyMap == [x \in {} |-> <<>>]
\* pd.DataFrame()
EmptyDf == [cols |-> <<>>, data |-> EmptyMap]

sorted_columns == SortByOrder(config.outputColumns)

\* engine.py:210-215
join_type == IF config.joinConfig.present THEN config.joinConfig.joinType ELSE "left"
primary_file_id ==
  IF config.joinConfig.present THEN config.joinConfig.primaryFileId
  ELSE IF config.files # <<>> THEN config.files[1].id ELSE NoFile

\* self.file_map.get(file_id, {}).get("name", file_id)
FileName(file_id) ==
  IF \E i \in DOMAIN config.files : config.files[i].id = file_id
  THEN config.files[CHOOSE i \in DOMAIN config.files : config.files[i].id = file_id].name
  ELSE file_id

\* an early return that drops the warning
EarlyReturnNoWarning(warns) ==
  /\ pc' = "early"
  /\ warnings' = <<>>
  /\ output_df' = EmptyDf
  /\ UNCHANGED <<key_values, idx, output_data, unmatched_keys_by_file>>

\* an early "return pd.DataFrame(), warnings"
EarlyReturn(warns) ==
  /\ pc' = "early"
  /\ warnings' = warns
  /\ output_df' = EmptyDf
  /\ UNCHANGED <<key_values, idx, output_data, unmatched_keys_by_file>>

\* positional key values that run one past the base table
PositionalKeysOnePast(base_df) == [i \in 1..(Len(base_df.rows) + 1) |-> i - 1]

\* list(range(len(base_df))): the offsets of the first configured file's rows
PositionalKeys(base_df) == [i \in 1..Len(base_df.rows) |-> i - 1]

\* engine.py:249-253: the row loop starts with empty column lists
BeginRows(kv) ==
  /\ pc' = "rows"
  /\ key_values' = kv
  /\ idx' = 0
  /\ output_data' = [name \in {sorted_columns[i].name : i \in DOMAIN sorted_columns} |-> <<>>]
  /\ unmatched_keys_by_file' = [f \in DfIds(dataframes) |-> <<>>]
  /\ warnings' = <<>>
  /\ UNCHANGED output_df

\* execute, engine.py:200-253: validate the configuration, resolve the keys
Start ==
  /\ pc = "idle"
  /\ IF config.outputColumns = <<>>
     THEN EarlyReturn(<<SimpleWarning("no_output_columns")>>)
     ELSE IF config.keyColumn.present
     THEN LET key_mappings == config.keyColumn.mappings
          IN IF DOMAIN key_mappings = {}
             THEN EarlyReturn(<<SimpleWarning("no_key_mappings")>>)
             ELSE IF primary_file_id = NoFile \/ ~HasDf(dataframes, primary_file_id)
             THEN EarlyReturn(<<SimpleWarning("primary_not_found")>>)
             ELSE LET r == _get_key_values_for_join_type(
                             join_type, primary_file_id, key_mappings, dataframes, config.files)
                  IN IF ~r.ok THEN EarlyReturn(r.warns)
                     ELSE \E kv \in r.options : BeginRows(kv)
     ELSE LET first_file_id == IF config.files # <<>> THEN config.files[1].id ELSE NoFile
          IN IF first_file_id # NoFile /\ HasDf(dataframes, first_file_id)
             THEN BeginRows(PositionalKeys(GetDf(dataframes, first_file_id)))
             ELSE EarlyReturn(<<SimpleWarning("no_files")>>)
  /\ UNCHANGED <<config, dataframes, calls, previous, preview_result, ruleVars>>

\* a file takes part in key matching when its mapped key column exists
UsesKey(df) ==
  /\ config.keyColumn.present
  /\ MapGet(config.keyColumn.mappings, df.id) # NoCol
  /\ HasColumn(df, MapGet(config.keyColumn.mappings, df.id))

\* a FileRow that takes the last matching row
FileRowLastMatch(df, i, key_value) ==
  IF UsesKey(df)
  THEN LET m == MatchingRows(df, MapGet(config.keyColumn.mappings, df.id), key_value)
       IN IF m # {} THEN RowOf(df, CHOOSE x \in m : \A y \in m : y <= x) ELSE NoRow
  ELSE IF i < Len(df.rows) THEN RowOf(df, i + 1) ELSE NoRow

\* a FileRow whose match by index reads one row too far
FileRowOffByOne(df, i, key_value) ==
  IF UsesKey(df)
  THEN LET m == MatchingRows(df, MapGet(config.keyColumn.mappings, df.id), key_value)
       IN IF m # {} THEN RowOf(df, Min(m)) ELSE NoRow
  ELSE IF i + 1 < Len(df.rows) THEN RowOf(df, i + 2) ELSE NoRow

\* engine.py:258-289: the row of every file for output row i (0-based)
FileRow(df, i, key_value) ==
  IF UsesKey(df)
  THEN LET m == MatchingRows(df, MapGet(config.keyColumn.mappings, df.id), key_value)
       IN IF m # {} THEN RowOf(df, Min(m)) ELSE NoRow
  ELSE IF i < Len(df.rows) THEN RowOf(df, i + 1) ELSE NoRow

FileRows(i, key_value) ==
  [f \in DfIds(dataframes) |-> FileRow(GetDf(dataframes, f), i, key_value)]

\* an Unmatched that also counts the files matched by index
UnmatchedWithoutKeyToo(df, key_value) ==
  \/ ~UsesKey(df)
  \/ MatchingRows(df, MapGet(config.keyColumn.mappings, df.id), key_value) = {}

\* engine.py:272-276: remember the key for a keyed file without a match
Unmatched(df, key_value) ==
  UsesKey(df) /\ MatchingRows(df, MapGet(config.keyColumn.mappings, df.id), key_value) = {}

\* engine.py:292-296: evaluate the output columns of one row, in order
RECURSIVE EvalColumns(_, _, _)
EvalColumns(cols, file_rows, acc) ==
  IF cols = <<>> \/ acc.raised THEN acc
  ELSE LET c == Head(cols)
           r == _compute_column_value(c.source, file_rows)
       IN IF r.raised THEN [acc EXCEPT !.raised = TRUE]
          ELSE EvalColumns(Tail(cols), file_rows,
                 [raised |-> FALSE,
                  data |-> [acc.data EXCEPT ![c.name] = Append(@, r.value)],
                  warns |-> acc.warns \o r.warns])

\* one iteration of "for idx, key_value in enumerate(key_values)"
ProcessRow ==
  /\ pc = "rows"
  /\ idx < Len(key_values)
  /\ LET key_value == key_values[idx + 1]
         file_rows == FileRows(idx, key_value)
         r == EvalColumns(sorted_columns, file_rows,
                          [raised |-> FALSE, data |-> output_data, warns |-> warnings])
     IN IF r.raised
        THEN /\ pc' = "raised"
             /\ UNCHANGED <<idx, output_data, unmatched_keys_by_file, warnings>>
        ELSE /\ pc' = "rows"
             /\ idx' = idx + 1
             /\ output_data' = r.data
             /\ warnings' = r.warns
             /\ unmatched_keys_by_file' =
                  [f \in DOMAIN unmatched_keys_by_file |->
                     IF /\ Unmatched(GetDf(dataframes, f), key_value)
                        /\ Len(unmatched_keys_by_file[f]) < UnmatchedCap
                     THEN Append(unmatched_keys_by_file[f], key_value)
                     ELSE unmatched_keys_by_file[f]]
  /\ UNCHANGED <<config, dataframes, key_values, output_df, calls, previous, preview_result,
                 ruleVars>>

\* summary warnings that list every recorded key
RECURSIVE SummaryWarningsListAll(_)
SummaryWarningsListAll(i) ==
  IF i > Len(dataframes) THEN <<>>
  ELSE LET file_id == dataframes[i].id
           unmatched_keys == unmatched_keys_by_file[file_id]
       IN (IF unmatched_keys # <<>>
           THEN <<Warning("unmatched_keys", FileName(file_id), <<>>, Len(unmatched_keys),
                          unmatched_keys, 0)>>
           ELSE <<>>) \o SummaryWarningsListAll(i + 1)

\* engine.py:302-310: one summary warning per file with unmatched keys
RECURSIVE SummaryWarnings(_)
SummaryWarnings(i) ==
  IF i > Len(dataframes) THEN <<>>
  ELSE LET file_id == dataframes[i].id
           unmatched_keys == unmatched_keys_by_file[file_id]
           n == Len(unmatched_keys)
       IN (IF unmatched_keys # <<>>
           THEN <<Warning("unmatched_keys", FileName(file_id), <<>>, n,
                          SubSeq(unmatched_keys, 1, IF n > SampleLimit THEN SampleLimit ELSE n),
                          IF n > SampleLimit THEN n - SampleLimit ELSE 0)>>
           ELSE <<>>) \o SummaryWarnings(i + 1)

\* pd.DataFrame(output_data) raises ValueError unless all lists are equally long
EqualLengths(data) == \A a, b \in DOMAIN data : Len(data[a]) = Len(data[b])

\* engine.py:298-312: assemble the table, append the summary warnings
Finish ==
  /\ pc = "rows"
  /\ idx = Len(key_values)
  /\ IF EqualLengths(output_data)
     THEN /\ pc' = "done"
          /\ output_df' = [cols |-> FirstNames(sorted_columns, {}), data |-> output_data]
          /\ warnings' = warnings \o SummaryWarnings(1)
     ELSE /\ pc' = "raised"
          /\ UNCHANGED <<output_df, warnings>>
  /\ UNCHANGED <<config, dataframes, key_values, idx, output_data, unmatched_keys_by_file,
                 calls, previous, preview_result, ruleVars>>

\* what a call of execute hands back to its caller
Returned == pc \in {"early", "done"}
Ended == pc \in {"early", "done", "raised"}
Outcome ==
  IF pc = "raised" THEN [status |-> "raised", output_df |-> EmptyDf, warnings |-> <<>>]
  ELSE [status |-> "returned", output_df |-> output_df, warnings |-> warnings]

\* preview's default max_rows
PreviewMaxRows == 10
\* len(output_df) and output_df.head(n)
DfLen(df) == IF df.cols = <<>> THEN 0 ELSE Len(df.data[df.cols[1]])
DfHead(df, n) ==
  [cols |-> df.cols,
   data |-> [name \in DOMAIN df.data |->
               SubSeq(df.data[name], 1, IF Len(df.data[name]) < n THEN Len(df.data[name]) ELSE n)]]

\* preview, engine.py:505-512: what it does with the result of execute
Preview ==
  /\ Returned
  /\ preview_result = <<>>
  /\ preview_result' =
       IF DfLen(output_df) > PreviewMaxRows
       THEN <<[output_df |-> DfHead(output_df, PreviewMaxRows),
               warnings |-> Append(warnings, SimpleWarning("preview_limited"))]>>
       ELSE <<[output_df |-> output_df, warnings |-> warnings]>>
  /\ UNCHANGED <<config, dataframes, pc, key_values, idx, output_data,
                 unmatched_keys_by_file, warnings, output_df, calls, previous, ruleVars>>

\* a Rerun that keeps the warning list, as an attribute of the engine would be
RerunKeepsWarnings ==
  /\ Ended
  /\ calls < MaxRuns
  /\ calls' = calls + 1
  /\ previous' = <<Outcome>>
  /\ pc' = "idle"
  /\ key_values' = <<>>
  /\ idx' = 0
  /\ output_data' = EmptyMap
  /\ unmatched_keys_by_file' = EmptyMap
  /\ output_df' = EmptyDf
  /\ preview_result' = <<>>
  /\ UNCHANGED <<config, dataframes, warnings, ruleVars>>

\* the same engine object is called again on the same tables; the locals of
\* the call that ended are gone
Rerun ==
  /\ Ended
  /\ calls < MaxRuns
  /\ calls' = calls + 1
  /\ previous' = <<Outcome>>
  /\ pc' = "idle"
  /\ key_values' = <<>>
  /\ idx' = 0
  /\ output_data' = EmptyMap
  /\ unmatched_keys_by_file' = EmptyMap
  /\ warnings' = <<>>
  /\ output_df' = EmptyDf
  /\ preview_result' = <<>>
  /\ UNCHANGED <<config, dataframes, ruleVars>>

Next == Start \/ ProcessRow \/ Finish \/ Preview \/ Rerun

\* --------------------------------------------------------------- inputs
ColId == <<"i", "d">>
ColQty == <<"q", "t", "y">>
ColSold == <<"s", "o", "l", "d">>
\* a column no table has, and the quantity column written with a trailing blank
ColMissing == <<"z", "z">>
ColQtyPadded == <<"q", "t", "y", " ">>

KeyA == TextCell(<<"A">>)
KeyB == TextCell(<<"B">>)
KeyC == TextCell(<<"C">>)
KeyAPadded == TextCell(<<" ", "A", " ">>)
KeyBlank == TextCell(<<" ">>)

\* a column as pandas holds it: integers next to NaN and no text make a
\* float64 column, so the integers become floats
Upcast(raws) ==
  IF /\ \A i \in DOMAIN raws : raws[i].t \in {"null", "int", "float"}
     /\ \E i \in DOMAIN raws : raws[i].t = "null"
  THEN [i \in DOMAIN raws |-> IF raws[i].t = "int" THEN FloatCell(raws[i].n, 1) ELSE raws[i]]
  ELSE raws

\* a parsed two-column table: the key column "id" and one data column
Table(id, keys, dataCol, data) ==
  [id |-> id, cols |-> <<ColId, dataCol>>,
   rows |-> [i \in DOMAIN keys |->
               [c \in {ColId, dataCol} |-> IF c = ColId THEN Upcast(keys)[i] ELSE Upcast(data)[i]]]]

Files12 == <<[id |-> "F1", name |-> "Inventory"], [id |-> "F2", name |-> "Sales"]>>
Files21 == <<[id |-> "F2", name |-> "Sales"], [id |-> "F1", name |-> "Inventory"]>>

Config(files, keyColumn, joinConfig, outputColumns) ==
  [files |-> files, keyColumn |-> keyColumn, joinConfig |-> joinConfig,
   outputColumns |-> outputColumns]

BothMapped == [f \in {"F1", "F2"} |-> ColId]
OnlyF1Mapped == [f \in {"F1"} |-> ColId]
F2MappedToMissing == [f \in {"F1", "F2"} |-> IF f = "F1" THEN ColId ELSE ColMissing]

JoinTypes == {"inner", "left", "right", "full", "outer"}
\* file list, key mappings and join configuration; "outer" is no join type of
\* the engine, F3 is a file that is never supplied
JoinSetups ==
  {<<Files12, BothMapped, j>> :
     j \in {NoJoinConfig} \cup {JoinConfig(t, "F1") : t \in JoinTypes}
          \cup {JoinConfig(t, "F2") : t \in {"left", "right"}}
          \cup {JoinConfig(t, "F3") : t \in {"inner", "right"}}}
  \cup {<<Files21, BothMapped, j>> :
     j \in {JoinConfig("right", "F2"), JoinConfig("right", "F1"), JoinConfig("left", "F1")}}
  \cup {<<Files12, OnlyF1Mapped, JoinConfig(t, "F1")>> : t \in {"inner", "right"}}
  \cup {<<Files12, F2MappedToMissing, JoinConfig(t, "F1")>> : t \in {"inner", "full"}}

\* the locals of execute before the first call
InitLocals ==
  /\ pc = "idle"
  /\ key_values = <<>>
  /\ idx = 0
  /\ output_data = EmptyMap
  /\ unmatched_keys_by_file = EmptyMap
  /\ warnings = <<>>
  /\ output_df = EmptyDf
  /\ calls = 1
  /\ previous = <<>>
  /\ preview_result = <<>>

\* the scenario of the specification: Inventory and Sales, left join on id,
\* remaining = qty - sold
ScenarioConfig ==
  Config(Files12, KeyColumn(BothMapped), JoinConfig("left", "F1"),
         <<OutputColumn("remaining", 1,
             MathSource("subtract", <<ColumnRef("F1", ColQty), ColumnRef("F2", ColSold)>>))>>)
ScenarioTables ==
  <<Table("F1", <<KeyA, KeyB>>, ColQty, <<IntCell(10), IntCell(5)>>),
    Table("F2", <<KeyA, KeyC>>, ColSold, <<IntCell(12), IntCell(1)>>)>>

InitScenario ==
  /\ config = ScenarioConfig
  /\ dataframes = ScenarioTables

\* join resolution: every key column of F1 up to MaxRows rows against a few
\* key columns of F2, under every join configuration
KeyCells == {NullCell, KeyA, KeyAPadded, KeyB, KeyBlank}
F2KeyColumns == {<<>>, <<KeyB, KeyA>>, <<KeyC, KeyAPadded>>, <<IntCell(1), NullCell>>}
QtyData(n) == [i \in 1..n |-> IntCell(10 * i)]
SoldData(n) == [i \in 1..n |-> IntCell(i)]
JoinOutputColumns ==
  <<OutputColumn("sold", 2, DirectSource("F2", ColSold)),
    OutputColumn("key", 1, DirectSource("F1", ColId))>>

InitJoin ==
  \E k1 \in SeqsUpTo(KeyCells, MaxRows), k2 \in F2KeyColumns, setup \in JoinSetups :
    /\ config = Config(setup[1], KeyColumn(setup[2]), setup[3], JoinOutputColumns)
    /\ dataframes = <<Table("F1", k1, ColQty, QtyData(Len(k1))),
                      Table("F2", k2, ColSold, SoldData(Len(k2)))>>

\* column evaluation: a math (or concat) column followed by a constant
\* column, over a two-row Inventory whose first quantity cell varies and a
\* one-row Sales that matches key A with 2, matches with 0, or does not match
QtyCells == {NullCell, IntCell(6), TextCell(<<"x">>), TextCell(<<" ", "3">>)}
Inventory(q) == Table("F1", <<KeyA, KeyB>>, ColQty, <<q, IntCell(3)>>)
EvalTables ==
  {<<Inventory(q), Table("F2", <<KeyA>>, ColSold, <<IntCell(2)>>)>> : q \in QtyCells}
  \cup {<<Inventory(IntCell(6)), Table("F2", <<KeyA>>, ColSold, <<IntCell(0)>>)>>,
        <<Inventory(TextCell(<<"x">>)), Table("F2", <<KeyC>>, ColSold, <<IntCell(2)>>)>>}
TagColumn == OutputColumn("tag", 2, CustomSource(<<"t">>))
EvalConfig(source) ==
  Config(Files12, KeyColumn(BothMapped), JoinConfig("left", "F1"),
         <<OutputColumn("value", 1, source), TagColumn>>)

Operations == {"add", "subtract", "multiply", "divide", "power"}
OperandChoices ==
  {LiteralRef(IntCell(0)), LiteralRef(NullCell),
   ColumnRef("F1", ColQty), ColumnRef("F1", ColQtyPadded), ColumnRef("F2", ColSold),
   ColumnRef("F1", ColMissing)}

InitMath ==
  \E op \in Operations, operands \in SeqsUpTo(OperandChoices, MaxOperands), t \in EvalTables :
    /\ config = EvalConfig(MathSource(op, operands))
    /\ dataframes = t

PartChoices ==
  {LiteralRef(TextCell(<<"x">>)), LiteralRef(NullCell), ColumnRef("F1", ColQty),
   ColumnRef("F2", ColSold), ColumnRef("F1", ColMissing), ColumnRef(NoFile, ColQty)}
\* the separator key absent, null (as a dumped ConcatColumnSource without a
\* separator has it), or "-"
Separators == {<<FALSE, NullCell>>, <<TRUE, NullCell>>, <<TRUE, TextCell(<<"-">>)>>}

InitConcat ==
  \E parts \in SeqsUpTo(PartChoices, MaxParts), sep \in Separators, t \in EvalTables :
    /\ config = EvalConfig(ConcatSource(parts, sep[1], sep[2]))
    /\ dataframes = t

\* no key column configured: rows are paired by position
InitPositional ==
  \E k1 \in SeqsUpTo(KeyCells, MaxRows), k2 \in F2KeyColumns,
     files \in {Files12, Files21, <<>>}, supplied \in {{"F1", "F2"}, {"F2"}} :
    /\ config = Config(files, NoKeyColumn, NoJoinConfig, JoinOutputColumns)
    /\ dataframes = SelectSeq(<<Table("F1", k1, ColQty, QtyData(Len(k1))),
                                Table("F2", k2, ColSold, SoldData(Len(k2)))>>,
                              LAMBDA t : t.id \in supplied)

\* configurations the engine cannot run: no output columns, a key column
\* without mappings, a primary file that is not supplied, no files at all;
\* the supplied tables are those of the configured files
NoMappings == [f \in {} |-> NoCol]
ErrorTables ==
  <<Table("F1", <<KeyA, KeyB>>, ColQty, QtyData(2)), Table("F2", <<KeyA>>, ColSold, SoldData(1))>>
InitConfigErrors ==
  \E outputColumns \in {<<>>, JoinOutputColumns},
     keyColumn \in {NoKeyColumn, KeyColumn(NoMappings), KeyColumn(BothMapped)},
     joinConfig \in {NoJoinConfig, JoinConfig("left", "F1"), JoinConfig("inner", "F3")},
     files \in {Files12, <<>>} :
    /\ config = Config(files, keyColumn, joinConfig, outputColumns)
    /\ dataframes = IF files = <<>> THEN <<>> ELSE ErrorTables

\* data of poor quality under keys that all match: a text quantity, and
\* sources that name a column no table has
QualityTables ==
  <<Inventory(TextCell(<<"x">>)),
    Table("F2", <<KeyA, KeyB>>, ColSold, <<IntCell(2), IntCell(0)>>)>>
QualitySources ==
  {DirectSource("F1", ColMissing),
   MathSource("add", <<ColumnRef("F1", ColQty)>>),
   MathSource("add", <<ColumnRef("F2", ColMissing)>>),
   MathSource("divide", <<ColumnRef("F1", ColQty), ColumnRef("F2", ColSold)>>)}
InitQuality ==
  \E source \in QualitySources :
    /\ config = EvalConfig(source)
    /\ dataframes = QualityTables

\* a long Inventory with keys 1, 2, ... of which Sales has only key 1
InitManyKeys ==
  \E n \in {SampleLimit + 1, SampleLimit + 2, ManyRows} :
    /\ config = Config(Files12, KeyColumn(BothMapped), JoinConfig("left", "F1"),
                       JoinOutputColumns)
    /\ dataframes = <<Table("F1", [i \in 1..n |-> IntCell(i)], ColQty, QtyData(n)),
                      Table("F2", <<IntCell(1)>>, ColSold, SoldData(1))>>

\* output-column lists in which a name occurs twice; the workflow models do
\* not require the names to differ
RepeatedNameColumns ==
  {<<OutputColumn("key", 2, DirectSource("F1", ColId)),
     OutputColumn("key", 1, DirectSource("F2", ColSold))>>,
   <<OutputColumn("key", 1, DirectSource("F1", ColId)),
     OutputColumn("qty", 2, DirectSource("F1", ColQty)),
     OutputColumn("key", 3, DirectSource("F2", ColSold))>>}
InitRepeatedNames ==
  \E outputColumns \in RepeatedNameColumns :
    /\ config = Config(Files12, KeyColumn(BothMapped), JoinConfig("left", "F1"), outputColumns)
    /\ dataframes = ErrorTables

\* nothing of the diff generator or the runs API is in use
NoTable == [id |-> "", cols |-> <<>>, rows |-> <<>>]
RuleIdle ==
  /\ original_df = NoTable
  /\ modified_df = NoTable
  /\ changes = <<>>
  /\ key_column = NoCol
  /\ diff_result = <<>>
  /\ diff_pc = "idle"
  /\ workflows = EmptyMap
  /\ runs = <<>>
  /\ audit_log = <<>>
  /\ response = <<>>

Init ==
  InitLocals /\ RuleIdle /\ (InitScenario \/ InitJoin \/ InitMath \/ InitConcat \/ InitPositional
                 \/ InitConfigErrors \/ InitQuality \/ InitManyKeys \/ InitRepeatedNames)

Spec == Init /\ [][Next]_vars

\* ------------------------------------------------- single calls of execute
\* a keyed run in which Sales has no usable key column: no entry in the
\* mappings, or an entry naming a column the table does not have
FallbackKeys == {KeyA, KeyB, KeyC}
FallbackF2Keys == {<<>>, <<KeyB>>, <<KeyB, KeyA>>}
FallbackMappings == {OnlyF1Mapped, F2MappedToMissing}
FallbackJoins ==
  {NoJoinConfig, JoinConfig("left", "F1"), JoinConfig("right", "F1"),
   JoinConfig("inner", "F1"), JoinConfig("full", "F1")}
InitFallback ==
  \E k1 \in SeqsUpTo(FallbackKeys, MaxRows), k2 \in FallbackF2Keys,
     mappings \in FallbackMappings, joinConfig \in FallbackJoins :
    /\ config = Config(Files12, KeyColumn(mappings), joinConfig, JoinOutputColumns)
    /\ dataframes = <<Table("F1", k1, ColQty, QtyData(Len(k1))),
                      Table("F2", k2, ColSold, SoldData(Len(k2)))>>

CallInit ==
  InitLocals /\ RuleIdle /\ (InitPositional \/ InitMath \/ InitJoin \/ InitManyKeys
                               \/ InitFallback)

\* the join types the engine tells apart
KnownJoinTypes == {"inner", "left", "right", "full"}

\* after a call under a join type the engine does not know, or without a
\* join configuration, a second engine is built from the same configuration
\* with joinType "left" written out (the primary file stays, or is the first
\* configured file) and executes on the same tables
ExecuteAsLeft ==
  /\ Ended
  /\ previous = <<>>
  /\ ~config.joinConfig.present \/ config.joinConfig.joinType \notin KnownJoinTypes
  /\ config' = [config EXCEPT !.joinConfig =
                  JoinConfig("left",
                    IF config.joinConfig.present THEN config.joinConfig.primaryFileId
                    ELSE IF config.files # <<>> THEN config.files[1].id ELSE NoFile)]
  /\ previous' = <<Outcome>>
  /\ calls' = calls + 1
  /\ pc' = "idle"
  /\ key_values' = <<>>
  /\ idx' = 0
  /\ output_data' = EmptyMap
  /\ unmatched_keys_by_file' = EmptyMap
  /\ warnings' = <<>>
  /\ output_df' = EmptyDf
  /\ UNCHANGED <<dataframes, preview_result, ruleVars>>

\* a call of execute, from its first statement to its return, and the call
\* it is compared with
Call == Start \/ ProcessRow \/ Finish \/ ExecuteAsLeft

CallSpec == CallInit /\ [][Call]_vars

\* --------------------------------------------------------- diff generator
MaxChanges == 3

CellChange(row, column, keyValue, oldValue, newValue) ==
  [row |-> row, column |-> column, keyValue |-> keyValue, oldValue |-> oldValue,
   newValue |-> newValue, changeType |-> "modified"]

\* old_val != new_val: numbers compare by value, text by characters, a
\* number never equals text, and NaN equals nothing
PyNotEqual(a, b) ==
  IF IsNa(a) \/ IsNa(b) THEN TRUE
  ELSE IF a.t = "text" /\ b.t = "text" THEN a.s # b.s
  ELSE IF a.t # "text" /\ b.t # "text" THEN a.n * b.d # b.n * a.d
  ELSE TRUE

\* the comparison without the test for two nulls
CellChangedNoNullTest(old_val, new_val) ==
  (IsNa(old_val) # IsNa(new_val)) \/ PyNotEqual(old_val, new_val)

\* differ.py:133-138
CellChanged(old_val, new_val) ==
  IF IsNa(old_val) /\ IsNa(new_val) THEN FALSE
  ELSE (IsNa(old_val) # IsNa(new_val)) \/ PyNotEqual(old_val, new_val)

\* str(original_df.iloc[idx].get(key_column, idx)), idx counted from 0
DiffKeyValue(df, key_col, i) ==
  IF HasColumn(df, key_col) THEN Str(df.rows[i + 1][key_col]) ELSE NatStr(i)

\* differ.py:125-146: the changes of row i, column by column
RECURSIVE CompareColumns(_, _, _, _, _)
CompareColumns(original, modified, i, cols, key_value) ==
  IF cols = <<>> THEN <<>>
  ELSE LET col == Head(cols)
           rest == CompareColumns(original, modified, i, Tail(cols), key_value)
       IN IF ~HasColumn(modified, col) THEN rest
          ELSE LET old_val == original.rows[i + 1][col]
                   new_val == modified.rows[i + 1][col]
               IN IF CellChanged(old_val, new_val)
                  THEN <<CellChange(i, col, key_value,
                                    IF IsNa(old_val) THEN NullCell ELSE old_val,
                                    IF IsNa(new_val) THEN NullCell ELSE new_val)>> \o rest
                  ELSE rest

\* differ.py:119-123: row by row, until either table ends
RECURSIVE CompareRows(_, _, _, _)
CompareRows(original, modified, key_col, i) ==
  IF i >= Len(original.rows) \/ i >= Len(modified.rows) THEN <<>>
  ELSE CompareColumns(original, modified, i, original.cols,
                      DiffKeyValue(original, key_col, i))
       \o CompareRows(original, modified, key_col, i + 1)

compare_dataframes(original, modified, key_col) == CompareRows(original, modified, key_col, 0)

\* float(newValue) < 0 of a value that is not None
IsNegative(v) == ~IsNa(v) /\ ToFloat(v).ok /\ ToFloat(v).n < 0

DiffWarning(row, column) == [type |-> "negative_value", row |-> row, column |-> column]
NoMessage == <<>>
\* "Value became negative in column '<column>'"
NegativeMessage(column) == <<"negative", column>>

\* differ.py:61-75: the warnings of one row group, and the last message
RECURSIVE RowWarnings(_, _)
RowWarnings(row_idx, cells) ==
  IF cells = <<>> THEN <<>>
  ELSE (IF IsNegative(Head(cells).newValue)
        THEN <<DiffWarning(row_idx, Head(cells).column)>> ELSE <<>>)
       \o RowWarnings(row_idx, Tail(cells))

\* a row message that keeps the first offending column
FirstWarningMessage(ws) == IF ws = <<>> THEN NoMessage ELSE NegativeMessage(ws[1].column)

LastWarningMessage(ws) == IF ws = <<>> THEN NoMessage ELSE NegativeMessage(ws[Len(ws)].column)

\* differ.py:77-83
RowChange(row_idx, cells) ==
  LET ws == RowWarnings(row_idx, cells)
  IN [rowIndex |-> row_idx, keyValue |-> cells[1].keyValue, cells |-> cells,
      hasWarning |-> ws # <<>>, warningMessage |-> LastWarningMessage(ws)]

\* the row indices in descending order
RECURSIVE Descending(_)
Descending(S) ==
  IF S = {} THEN <<>>
  ELSE LET m == CHOOSE x \in S : \A y \in S : y <= x IN <<m>> \o Descending(S \ {m})

\* sorted(changes_by_row.items()): the row indices in ascending order
RECURSIVE Ascending(_)
Ascending(S) == IF S = {} THEN <<>> ELSE <<Min(S)>> \o Ascending(S \ {Min(S)})

\* differ.py:46-48: the changes of one row, in list order
ChangesByRow(chs, row_idx) == SelectSeq(chs, LAMBDA c : c.row = row_idx)

RECURSIVE RowGroups(_, _)
RowGroups(chs, row_order) ==
  IF row_order = <<>> THEN <<>>
  ELSE <<RowChange(Head(row_order), ChangesByRow(chs, Head(row_order)))>>
       \o RowGroups(chs, Tail(row_order))

RECURSIVE AllWarnings(_)
AllWarnings(groups) ==
  IF groups = <<>> THEN <<>>
  ELSE RowWarnings(Head(groups).rowIndex, Head(groups).cells) \o AllWarnings(Tail(groups))

\* a summary that counts the rows in cellsModified
DiffSummaryCountsRows(groups, chs, modified, ws) ==
  [rowsAffected |-> Len(groups), cellsModified |-> Len(groups),
   totalRows |-> Len(modified.rows), warnings |-> Len(ws), errors |-> 0]

\* differ.py:86-97
DiffSummary(groups, chs, modified, ws) ==
  [rowsAffected |-> Len(groups), cellsModified |-> Len(chs),
   totalRows |-> Len(modified.rows), warnings |-> Len(ws), errors |-> 0]

\* DiffGenerator.generate
generate(original, modified, chs, key_col) ==
  LET inferred == IF key_col = NoCol /\ chs # <<>>
                  THEN (IF original.cols # <<>> THEN original.cols[1] ELSE NoCol)
                  ELSE key_col
      groups == RowGroups(chs, Ascending({chs[i].row : i \in DOMAIN chs}))
      ws == AllWarnings(groups)
  IN [summary |-> DiffSummary(groups, chs, modified, ws),
      changes |-> groups,
      warnings |-> ws,
      columns |-> original.cols,
      keyColumn |-> inferred]

\* a call of compare_dataframes on the two tables
CompareDataframes ==
  /\ diff_pc = "idle"
  /\ changes' = compare_dataframes(original_df, modified_df, key_column)
  /\ diff_pc' = "compared"
  /\ UNCHANGED <<original_df, modified_df, key_column, diff_result, workflows, runs,
                 audit_log, response, engineVars>>

\* a call of generate on the change list at hand
Generate ==
  /\ diff_pc \in {"idle", "compared"}
  /\ diff_result' = <<generate(original_df, modified_df, changes, key_column)>>
  /\ diff_pc' = "generated"
  /\ UNCHANGED <<original_df, modified_df, changes, key_column, workflows, runs,
                 audit_log, response, engineVars>>

\* --------------------------------------------------------------- runs API
\* rows the runs table holds at most
MaxStoredRuns == 2
\* workflows ever created, the highest version an update reaches, and the
\* runs run_workflow stores
MaxWorkflows == 1
MaxVersion == 2
MaxWorkflowRuns == 1
\* WorkflowEngine.execute(self, dataframes) takes one argument
ExecuteParameters == 1
\* the columns of the runs table, and the keywords preview_run gives RunDB
RunDBColumns ==
  {"id", "workflow_id", "user_id", "status", "input_files", "output_path",
   "result_summary", "created_at", "completed_at"}
PreviewRunFields == {"id", "workflow_id", "status", "input_files", "diff_summary", "created_at"}

HttpError(status) == <<[status |-> status, run |-> <<>>]>>

\* preview_run; source_df and target_df are the two parsed uploads
PreviewRun ==
  /\ workflows # EmptyMap
  /\ \E workflow_id \in {"W1", "W9"}, source_df \in {ScenarioTables[2]},
        target_df \in {ScenarioTables[1]} :
       IF workflow_id \notin DOMAIN workflows
       THEN /\ response' = HttpError(404)
            /\ UNCHANGED <<runs, audit_log, diff_result>>
       ELSE LET arguments == <<source_df, target_df>>
            IN IF Len(arguments) # ExecuteParameters
               \* TypeError, turned into a 400 by the except clause
               THEN /\ response' = HttpError(400)
                    /\ UNCHANGED <<runs, audit_log, diff_result>>
               ELSE IF ~(PreviewRunFields \subseteq RunDBColumns)
               THEN /\ response' = HttpError(400)
                    /\ UNCHANGED <<runs, audit_log, diff_result>>
               ELSE LET diff == generate(target_df, target_df, <<>>, NoCol)
                        run == [id |-> Len(runs) + 1, workflow_id |-> workflow_id,
                                status |-> "preview", diff_summary |-> diff]
                    IN /\ runs' = Append(runs, run)
                       /\ audit_log' = Append(audit_log, [run_id |-> run.id, action |-> "preview"])
                       /\ diff_result' = <<diff>>
                       /\ response' = <<[status |-> 200, run |-> <<run>>]>>
  /\ UNCHANGED <<original_df, modified_df, changes, key_column, diff_pc, workflows, engineVars>>

RuleNext == CompareDataframes \/ Generate \/ PreviewRun

\* ------------------------------------------------- inputs of the rule path
DiffKeys == <<KeyA, KeyB, KeyC, TextCell(<<"D">>)>>
DiffCells == {NullCell, IntCell(1), IntCell(-1), TextCell(<<"1">>)}
DiffTable(dataCol, data) == Table("T", SubSeq(DiffKeys, 1, Len(data)), dataCol, data)

\* two tables compared cell by cell
InitCompare ==
  \E old \in SeqsUpTo(DiffCells, MaxRows), new \in SeqsUpTo(DiffCells, MaxRows),
     col \in {ColQty, ColSold}, key_col \in {ColId, NoCol} :
    /\ original_df = DiffTable(ColQty, old)
    /\ modified_df = DiffTable(col, new)
    /\ key_column = key_col
    /\ changes = <<>>
    /\ workflows = EmptyMap

\* change lists as a rule engine hands them to generate
\* the change to null carries another key value than the other changes of
\* its row
ChangeChoices ==
  {CellChange(row, cv[1], DiffKeys[IF cv[2] = NullCell THEN row + 3 ELSE row + 1].s,
              IntCell(1), cv[2]) :
     row \in {0, 1},
     cv \in {<<ColQty, IntCell(-1)>>, <<ColSold, IntCell(-1)>>, <<ColQty, IntCell(5)>>,
             <<ColSold, TextCell(<<"-", "2">>)>>, <<ColQty, NullCell>>,
             <<ColSold, TextCell(<<"x">>)>>}}
InitGenerate ==
  \E chs \in SeqsUpTo(ChangeChoices, MaxChanges),
     new \in {<<IntCell(1)>>, <<IntCell(1), IntCell(-1)>>} :
    /\ original_df = DiffTable(ColQty, <<IntCell(1), IntCell(1)>>)
    /\ modified_df = DiffTable(ColQty, new)
    /\ key_column = NoCol
    /\ changes = chs
    /\ workflows = EmptyMap

\* the runs API with one stored workflow
InitApi ==
  /\ original_df = NoTable
  /\ modified_df = NoTable
  /\ key_column = NoCol
  /\ changes = <<>>
  /\ workflows = [w \in {"W1"} |-> ScenarioConfig]

RuleInit ==
  /\ InitLocals
  /\ InitScenario
  /\ diff_result = <<>>
  /\ diff_pc = "idle"
  /\ runs = <<>>
  /\ audit_log = <<>>
  /\ response = <<>>
  /\ (InitCompare \/ InitGenerate \/ InitApi)

RuleSpec == RuleInit /\ [][RuleNext]_vars

\* ------------------------------------------ runs API: execute and download
\* the values of the RunStatus enumeration
PREVIEW == "preview"
APPROVED == "approved"
COMPLETED == "completed"
FAILED == "failed"
RunStatus == {PREVIEW, APPROVED, COMPLETED, FAILED}

\* what the output_path column of a run can hold: NULL, the plain path
\* run_workflow writes, or the JSON object execute_run writes
OutputNone == [kind |-> "null", excel |-> FALSE, pdf |-> FALSE]
OutputPlain == [kind |-> "plain", excel |-> FALSE, pdf |-> FALSE]
OutputJson(pdf) == [kind |-> "json", excel |-> TRUE, pdf |-> pdf]

\* a row of the runs table
StoredRun(id, workflow_id, status, output_path) ==
  [id |-> id, workflow_id |-> workflow_id, status |-> status, diff_summary |-> <<>>,
   output_path |-> output_path]

\* the response of execute_run and download_output
Reply(request, run_id, status) ==
  <<[status |-> status, run |-> <<>>, request |-> request, run_id |-> run_id]>>

\* the test execute_run makes on the status of the run it is given
AlreadyExecutedUnlessFailed(run) == run.status \notin {PREVIEW, FAILED}
AlreadyExecuted(run) == run.status # PREVIEW

\* the test download_output makes on the status of the run it is given
NotCompleted(run) == run.status # COMPLETED

\* execute_run; files_parse says whether the stored uploads still parse,
\* generate_pdf is the query parameter
ExecuteRun ==
  /\ workflows # EmptyMap
  /\ \E run_id \in 1..(Len(runs) + 1), generate_pdf \in BOOLEAN, files_parse \in BOOLEAN :
       IF run_id \notin 1..Len(runs)
       THEN /\ response' = Reply("execute", run_id, 404)
            /\ UNCHANGED <<runs, audit_log>>
       ELSE LET run == runs[run_id]
            IN IF AlreadyExecuted(run)
               THEN /\ response' = Reply("execute", run_id, 400)
                    /\ UNCHANGED <<runs, audit_log>>
               ELSE IF run.workflow_id \notin DOMAIN workflows
               THEN /\ response' = Reply("execute", run_id, 404)
                    /\ UNCHANGED <<runs, audit_log>>
               ELSE LET arguments == <<ScenarioTables[2], ScenarioTables[1]>>
                    IN IF ~files_parse \/ Len(arguments) # ExecuteParameters
                       \* the except clause: FAILED and a 500
                       THEN /\ runs' = [runs EXCEPT ![run_id].status = FAILED]
                            /\ response' = Reply("execute", run_id, 500)
                            /\ UNCHANGED audit_log
                       ELSE /\ runs' = [runs EXCEPT ![run_id] =
                                          StoredRun(run.id, run.workflow_id, COMPLETED,
                                                    OutputJson(generate_pdf))]
                            /\ audit_log' = Append(audit_log,
                                                   [run_id |-> run.id, action |-> "execute"])
                            /\ response' = Reply("execute", run_id, 200)
  /\ UNCHANGED <<original_df, modified_df, changes, key_column, diff_result, diff_pc, workflows,
                 engineVars>>

\* download_output; exists is what os.path.exists answers for the path
DownloadOutput ==
  /\ workflows # EmptyMap
  /\ \E run_id \in 1..(Len(runs) + 1), file_type \in {"excel", "pdf", "csv"},
        exists \in BOOLEAN :
       IF run_id \notin 1..Len(runs)
       THEN response' = Reply("download", run_id, 404)
       ELSE LET run == runs[run_id]
            IN IF NotCompleted(run)
               THEN response' = Reply("download", run_id, 400)
               \* json.loads of NULL or of a plain path raises
               ELSE IF run.output_path.kind # "json"
               THEN response' = Reply("download", run_id, 500)
               ELSE IF file_type = "excel"
               THEN response' = Reply("download", run_id,
                                      IF run.output_path.excel /\ exists THEN 200 ELSE 404)
               ELSE IF file_type = "pdf"
               THEN response' = Reply("download", run_id,
                                      IF run.output_path.pdf /\ exists THEN 200 ELSE 404)
               ELSE response' = Reply("download", run_id, 400)
  /\ UNCHANGED <<original_df, modified_df, changes, key_column, diff_result, diff_pc, workflows,
                 runs, audit_log, engineVars>>

RunsNext == PreviewRun \/ ExecuteRun \/ DownloadOutput

\* rows the runs table can hold when a request arrives
StoredRunChoices ==
  {<<"W1", PREVIEW, OutputNone>>, <<"W9", PREVIEW, OutputNone>>,
   <<"W1", APPROVED, OutputNone>>, <<"W1", FAILED, OutputNone>>,
   <<"W1", COMPLETED, OutputNone>>, <<"W1", COMPLETED, OutputPlain>>,
   <<"W1", COMPLETED, OutputJson(FALSE)>>, <<"W1", COMPLETED, OutputJson(TRUE)>>}
RunsInit ==
  /\ InitLocals
  /\ InitScenario
  /\ diff_result = <<>>
  /\ diff_pc = "idle"
  /\ audit_log = <<>>
  /\ response = <<>>
  /\ InitApi
  /\ \E rows \in SeqsUpTo(StoredRunChoices, MaxStoredRuns) :
       runs = [i \in 1..Len(rows) |-> StoredRun(i, rows[i][1], rows[i][2], rows[i][3])]

RunsSpec == RunsInit /\ [][RunsNext]_vars

\* ----------------------------------------------------------- workflow API
\* the users that send requests; NULL is the user_id of a row that was
\* stored before the column existed
Users == {"U1", "U2"}
NULL == "NULL"

\* a row of the workflows table
WorkflowRow(user_id, version) == [user_id |-> user_id, version |-> version]
\* a row of the runs table as run_workflow writes it
WorkflowRun(id, workflow_id, user_id, status) ==
  [id |-> id, workflow_id |-> workflow_id, user_id |-> user_id, status |-> status]

\* the response of the workflow API to a request of user current_user
WorkflowReply(request, current_user, workflow_id, run_id, status, body) ==
  <<[request |-> request, user |-> current_user, workflow_id |-> workflow_id,
     run_id |-> run_id, status |-> status, body |-> body]>>

\* select(WorkflowDB).where(id == workflow_id, user_id == current_user.id),
\* scalar_one_or_none
SelectWorkflowOfAnyUser(workflow_id, current_user) ==
  IF workflow_id \in DOMAIN workflows THEN <<workflow_id>> ELSE <<>>
SelectWorkflow(workflow_id, current_user) ==
  IF workflow_id \in DOMAIN workflows /\ workflows[workflow_id].user_id = current_user
  THEN <<workflow_id>>
  ELSE <<>>

\* select(RunDB).where(id == run_id, workflow_id == ..., user_id == ...),
\* scalar_one_or_none
SelectRun(run_id, workflow_id, current_user) ==
  IF /\ run_id \in 1..Len(runs)
     /\ runs[run_id].workflow_id = workflow_id
     /\ runs[run_id].user_id = current_user
  THEN <<run_id>>
  ELSE <<>>

\* str(uuid.uuid4()): an id no stored row mentions
MaxOf(S) == IF S = {} THEN 0 ELSE CHOOSE m \in S : \A x \in S : x <= m
FreshWorkflowId ==
  1 + MaxOf(DOMAIN workflows \cup {runs[i].workflow_id : i \in 1..Len(runs)})

WorkflowIds == 1..MaxWorkflows
RunIds == 1..MaxWorkflowRuns

engineAndDiffVars ==
  <<original_df, modified_df, changes, key_column, diff_result, diff_pc, engineVars>>

create_workflow(current_user) ==
  /\ FreshWorkflowId <= MaxWorkflows
  /\ LET workflow_id == FreshWorkflowId
         row == WorkflowRow(current_user, 1)
     IN /\ workflows' = [w \in DOMAIN workflows \cup {workflow_id} |->
                           IF w = workflow_id THEN row ELSE workflows[w]]
        /\ response' = WorkflowReply("create", current_user, workflow_id, 0, 200, row)
  /\ UNCHANGED <<runs, audit_log>>

list_workflows(current_user) ==
  /\ response' = WorkflowReply("list", current_user, 0, 0, 200,
                               {w \in DOMAIN workflows : workflows[w].user_id = current_user})
  /\ UNCHANGED <<workflows, runs, audit_log>>

get_workflow(current_user, workflow_id) ==
  LET workflow == SelectWorkflow(workflow_id, current_user)
  IN /\ response' = IF workflow = <<>>
                    THEN WorkflowReply("get", current_user, workflow_id, 0, 404, <<>>)
                    ELSE WorkflowReply("get", current_user, workflow_id, 0, 200,
                                       workflows[workflow_id])
     /\ UNCHANGED <<workflows, runs, audit_log>>

update_workflow(current_user, workflow_id) ==
  LET workflow == SelectWorkflow(workflow_id, current_user)
  IN IF workflow = <<>>
     THEN /\ response' = WorkflowReply("update", current_user, workflow_id, 0, 404, <<>>)
          /\ UNCHANGED <<workflows, runs, audit_log>>
     ELSE /\ workflows[workflow_id].version < MaxVersion
          /\ workflows' = [workflows EXCEPT ![workflow_id].version = @ + 1]
          /\ response' = WorkflowReply("update", current_user, workflow_id, 0, 200,
                                       workflows'[workflow_id])
          /\ UNCHANGED <<runs, audit_log>>

delete_workflow(current_user, workflow_id) ==
  LET workflow == SelectWorkflow(workflow_id, current_user)
  IN IF workflow = <<>>
     THEN /\ response' = WorkflowReply("delete", current_user, workflow_id, 0, 404, <<>>)
          /\ UNCHANGED <<workflows, runs, audit_log>>
     ELSE /\ workflows' = [w \in DOMAIN workflows \ {workflow_id} |-> workflows[w]]
          /\ response' = WorkflowReply("delete", current_user, workflow_id, 0, 200, <<>>)
          /\ UNCHANGED <<runs, audit_log>>

\* run_workflow; upload says whether the request is rejected with a 400
\* before the engine runs, makes the engine raise, or succeeds
run_workflow(current_user, workflow_id, upload) ==
  LET workflow == SelectWorkflow(workflow_id, current_user)
      run_id == Len(runs) + 1
  IN IF workflow = <<>>
     THEN /\ response' = WorkflowReply("run", current_user, workflow_id, 0, 404, <<>>)
          /\ UNCHANGED <<workflows, runs, audit_log>>
     ELSE IF upload = "rejected"
     THEN /\ response' = WorkflowReply("run", current_user, workflow_id, 0, 400, <<>>)
          /\ UNCHANGED <<workflows, runs, audit_log>>
     ELSE /\ Len(runs) < MaxWorkflowRuns
          /\ IF upload = "raises"
             THEN /\ runs' = Append(runs, WorkflowRun(run_id, workflow_id, current_user, FAILED))
                  /\ response' = WorkflowReply("run", current_user, workflow_id, run_id, 400, <<>>)
                  /\ UNCHANGED <<workflows, audit_log>>
             ELSE /\ runs' = Append(runs,
                                    WorkflowRun(run_id, workflow_id, current_user, COMPLETED))
                  /\ audit_log' = Append(audit_log, [run_id |-> run_id, action |-> "execute"])
                  /\ response' = WorkflowReply("run", current_user, workflow_id, run_id, 200, <<>>)
                  /\ UNCHANGED workflows

\* get_workflow_result_data and download_workflow_result make the same
\* tests; exists is what os.path.exists answers for the output path
ResultReply(request, current_user, workflow_id, run_id, exists) ==
  LET run == SelectRun(run_id, workflow_id, current_user)
      status == IF run = <<>> THEN 404
                ELSE IF runs[run_id].status # COMPLETED THEN 400
                ELSE IF ~exists THEN 404
                ELSE 200
  IN WorkflowReply(request, current_user, workflow_id, run_id, status, <<>>)

get_workflow_result_data(current_user, workflow_id, run_id, exists) ==
  /\ response' = ResultReply("result", current_user, workflow_id, run_id, exists)
  /\ UNCHANGED <<workflows, runs, audit_log>>

download_workflow_result(current_user, workflow_id, run_id, exists) ==
  /\ response' = ResultReply("download", current_user, workflow_id, run_id, exists)
  /\ UNCHANGED <<workflows, runs, audit_log>>

CreateWorkflow ==
  /\ \E current_user \in Users : create_workflow(current_user)
  /\ UNCHANGED engineAndDiffVars
ListWorkflows ==
  /\ \E current_user \in Users : list_workflows(current_user)
  /\ UNCHANGED engineAndDiffVars
GetWorkflow ==
  /\ \E current_user \in Users, workflow_id \in WorkflowIds :
       get_workflow(current_user, workflow_id)
  /\ UNCHANGED engineAndDiffVars
UpdateWorkflow ==
  /\ \E current_user \in Users, workflow_id \in WorkflowIds :
       update_workflow(current_user, workflow_id)
  /\ UNCHANGED engineAndDiffVars
DeleteWorkflow ==
  /\ \E current_user \in Users, workflow_id \in WorkflowIds :
       delete_workflow(current_user, workflow_id)
  /\ UNCHANGED engineAndDiffVars
RunWorkflow ==
  /\ \E current_user \in Users, workflow_id \in WorkflowIds,
        upload \in {"rejected", "raises", "accepted"} :
       run_workflow(current_user, workflow_id, upload)
  /\ UNCHANGED engineAndDiffVars
GetWorkflowResultData ==
  /\ \E current_user \in Users, workflow_id \in WorkflowIds, run_id \in RunIds,
        exists \in BOOLEAN :
       get_workflow_result_data(current_user, workflow_id, run_id, exists)
  /\ UNCHANGED engineAndDiffVars
DownloadWorkflowResult ==
  /\ \E current_user \in Users, workflow_id \in WorkflowIds, run_id \in RunIds,
        exists \in BOOLEAN :
       download_workflow_result(current_user, workflow_id, run_id, exists)
  /\ UNCHANGED engineAndDiffVars

WorkflowNext ==
  \/ CreateWorkflow \/ ListWorkflows \/ GetWorkflow \/ UpdateWorkflow \/ DeleteWorkflow
  \/ RunWorkflow \/ GetWorkflowResultData \/ DownloadWorkflowResult

\* an empty database, or one that holds a workflow and possibly a run of it
\* from before the user_id columns were added
WorkflowInit ==
  /\ InitLocals
  /\ InitScenario
  /\ original_df = NoTable
  /\ modified_df = NoTable
  /\ changes = <<>>
  /\ key_column = NoCol
  /\ diff_result = <<>>
  /\ diff_pc = "idle"
  /\ audit_log = <<>>
  /\ response = <<>>
  /\ \/ workflows = EmptyMap /\ runs = <<>>
     \/ /\ workflows = [w \in {1} |-> WorkflowRow(NULL, 1)]
        /\ runs \in {<<>>, <<WorkflowRun(1, 1, NULL, COMPLETED)>>}

WorkflowSpec == WorkflowInit /\ [][WorkflowNext]_vars

\* ================================================================ claims
KeyedMode == config.keyColumn.present
RowsResolved == pc \in {"rows", "done"}
\* execute got as far as resolving the key universe (engine.py:233)
ResolverReached ==
  /\ pc # "idle"
  /\ config.outputColumns # <<>>
  /\ KeyedMode
  /\ DOMAIN config.keyColumn.mappings # {}
  /\ HasDf(dataframes, primary_file_id)

\* a raw key cell is a key iff it is not null and not blank once trimmed
ValidKeyCell(c) == ~IsNa(c) /\ Strip(Str(c)) # <<>>
CleanKey(c) == Strip(Str(c))
CleanKeySetOf(df, col) ==
  {CleanKey(df.rows[i][col]) : i \in {j \in DOMAIN df.rows : ValidKeyCell(df.rows[j][col])}}

\* the rows of df that hold the first occurrence of a key
FirstKeyRows(df, col) ==
  {i \in DOMAIN df.rows :
     /\ ValidKeyCell(df.rows[i][col])
     /\ \A j \in 1..(i - 1) :
          ValidKeyCell(df.rows[j][col]) => CleanKey(df.rows[j][col]) # CleanKey(df.rows[i][col])}
NthOf(I, p) == CHOOSE i \in I : Cardinality({j \in I : j <= i}) = p
IsOrderedKeysOf(kv, df, col) ==
  LET I == FirstKeyRows(df, col)
  IN /\ Len(kv) = Cardinality(I)
     /\ \A p \in 1..Len(kv) : kv[p] = CleanKey(df.rows[NthOf(I, p)][col])

NoDuplicates(kv) == \A p, q \in DOMAIN kv : kv[p] = kv[q] => p = q
KeyColOf(df) == MapGet(config.keyColumn.mappings, df.id)
\* the supplied tables whose mapped key column is one of their columns
MappedTables ==
  {dataframes[i] : i \in {j \in DOMAIN dataframes :
      KeyColOf(dataframes[j]) # NoCol /\ HasColumn(dataframes[j], KeyColOf(dataframes[j]))}}
AllCleanKeys == UNION {CleanKeySetOf(t, KeyColOf(t)) : t \in MappedTables}
UniqueName(name) ==
  Cardinality({i \in DOMAIN config.outputColumns : config.outputColumns[i].name = name}) = 1
\* every uniquely named output column holds one cell per key value
OneCellPerKey ==
  \A name \in DOMAIN output_df.data :
    UniqueName(name) => Len(output_df.data[name]) = Len(key_values)

IsScenario == config = ScenarioConfig /\ dataframes = ScenarioTables
ScenarioRows ==
  /\ key_values = <<KeyA.s, KeyB.s>>
  /\ output_df.cols = <<"remaining">>
  /\ output_df.data["remaining"] = <<FloatCell(-2, 1), FloatCell(5, 1)>>
ScenarioOneWarningAboutSales(key) ==
  /\ Len(warnings) = 1
  /\ warnings[1].kind = "unmatched_keys"
  /\ warnings[1].file = "Sales"
  /\ warnings[1].keys = <<key>>

\* C1 (as stated): the Inventory/Sales scenario yields the rows A, B with the
\* values -2 and 5 and exactly one unmatched-key warning, about Sales, that
\* names the key C.
C1_ScenarioWarnsAboutC ==
  (pc = "done" /\ IsScenario) => (ScenarioRows /\ ScenarioOneWarningAboutSales(KeyC.s))

\* C1 (amended): the Inventory/Sales scenario yields the rows A, B with the
\* values -2 and 5 and exactly one unmatched-key warning, about Sales, that
\* names the key B (the key of the universe that Sales does not contain).
C1_ScenarioWarnsAboutB ==
  /\ (pc = "done" /\ IsScenario) =>
       (ScenarioRows /\ ScenarioOneWarningAboutSales(KeyB.s) /\ warnings[1].count = 1)
  /\ (IsScenario /\ Ended) => pc = "done"

C1_Witness == pc = "done" /\ IsScenario /\ Len(output_df.data["remaining"]) = 2

\* C2: in keyed mode with join type left the key values are exactly the
\* cleaned, non-null, non-empty key cells of the primary file in row order,
\* later duplicates removed; every output column has one cell per such key,
\* so a key found only in another file produces no row.
C2_LeftKeysArePrimaryKeys ==
  (RowsResolved /\ KeyedMode /\ join_type = "left") =>
    /\ HasDf(dataframes, primary_file_id)
    /\ HasColumn(GetDf(dataframes, primary_file_id), KeyColOf(GetDf(dataframes, primary_file_id)))
    /\ IsOrderedKeysOf(key_values, GetDf(dataframes, primary_file_id),
                       KeyColOf(GetDf(dataframes, primary_file_id)))
    /\ (pc = "done" => OneCellPerKey)

\* a left join whose primary file repeats a key and whose other file has a
\* key the primary file lacks
C2_Witness ==
  /\ pc = "done" /\ KeyedMode /\ join_type = "left"
  /\ Len(key_values) >= 1
  /\ Len(key_values) < Len(GetDf(dataframes, primary_file_id).rows)
  /\ \E k \in AllCleanKeys : k \notin Range(key_values)
  /\ \E p \in DOMAIN key_values :
       Cardinality({i \in DOMAIN GetDf(dataframes, primary_file_id).rows :
          CleanKey(GetDf(dataframes, primary_file_id).rows[i][ColId]) = key_values[p]}) = 2

LastFileId == IF config.files # <<>> THEN config.files[Len(config.files)].id ELSE NoFile
\* the last configured file is supplied and its mapped key column exists
LastFileUsable ==
  /\ LastFileId # NoFile
  /\ HasDf(dataframes, LastFileId)
  /\ GetDf(dataframes, LastFileId) \in MappedTables
RightJoinConfigured ==
  /\ pc # "idle"
  /\ config.outputColumns # <<>>
  /\ KeyedMode
  /\ DOMAIN config.keyColumn.mappings # {}
  /\ join_type = "right"

\* C5 (as stated): with join type right the key universe is the ordered,
\* deduplicated cleaned keys of the last configured file, whatever
\* primaryFileId designates.
C5_RightKeysWhateverPrimary ==
  (RightJoinConfigured /\ LastFileUsable) =>
    /\ pc # "early"
    /\ RowsResolved =>
         IsOrderedKeysOf(key_values, GetDf(dataframes, LastFileId), KeyColOf(GetDf(dataframes, LastFileId)))

\* C5 (amended): with join type right the key universe is the ordered,
\* deduplicated cleaned keys of the last configured file, whichever of the
\* supplied tables primaryFileId designates; when primaryFileId designates no
\* supplied table the run returns early with an empty table.
C5_RightKeysOfLastFile ==
  RightJoinConfigured =>
    /\ (pc = "early") <=> ~(HasDf(dataframes, primary_file_id) /\ LastFileUsable)
    /\ RowsResolved =>
         IsOrderedKeysOf(key_values, GetDf(dataframes, LastFileId), KeyColOf(GetDf(dataframes, LastFileId)))

\* a right join whose primary file is not the last file and has other keys
C5_Witness ==
  /\ pc = "done" /\ RightJoinConfigured
  /\ primary_file_id # LastFileId
  /\ key_values # <<>>
  /\ HasColumn(GetDf(dataframes, primary_file_id), ColId)
  /\ Range(key_values) # CleanKeySetOf(GetDf(dataframes, primary_file_id), ColId)

\* C6: in keyed mode, for every join type, each key of the universe is a
\* trimmed, non-empty string that comes from a non-null key cell, no key
\* occurs twice, and the lookup of a key in a keyed file finds a row exactly
\* when a key cell of that file equals it after trimming; a key without a
\* row is recorded as unmatched while fewer than 10 are recorded.
C6_KeysAreCleaned ==
  (RowsResolved /\ KeyedMode) =>
    /\ \A p \in DOMAIN key_values :
         /\ key_values[p] # <<>>
         /\ Strip(key_values[p]) = key_values[p]
         /\ \E t \in MappedTables : key_values[p] \in CleanKeySetOf(t, KeyColOf(t))
    /\ NoDuplicates(key_values)
    /\ \A p \in 1..idx : \A t \in MappedTables :
         /\ FileRow(t, p - 1, key_values[p]).present
              <=> (key_values[p] \in CleanKeySetOf(t, KeyColOf(t)))
         /\ (key_values[p] \in Range(unmatched_keys_by_file[t.id]))
              => (key_values[p] \notin CleanKeySetOf(t, KeyColOf(t)))
         /\ ( /\ key_values[p] \notin CleanKeySetOf(t, KeyColOf(t))
              /\ Len(unmatched_keys_by_file[t.id]) < UnmatchedCap )
              => (key_values[p] \in Range(unmatched_keys_by_file[t.id]))

\* an inner join where one file writes a key with surrounding blanks and the
\* other without, and the key is in the universe
C6_Witness ==
  /\ pc = "done" /\ KeyedMode /\ join_type = "inner"
  /\ \E t1, t2 \in MappedTables : \E i \in DOMAIN t1.rows, j \in DOMAIN t2.rows :
       /\ t1.id # t2.id
       /\ Str(t1.rows[i][ColId]) # Str(t2.rows[j][ColId])
       /\ ValidKeyCell(t1.rows[i][ColId])
       /\ CleanKey(t1.rows[i][ColId]) = CleanKey(t2.rows[j][ColId])
       /\ CleanKey(t1.rows[i][ColId]) \in Range(key_values)
       /\ \E r \in DOMAIN t1.rows : ~ValidKeyCell(t1.rows[r][ColId])

\* C7: two executions on the same tables and configuration hand back the
\* same output table and the same warning list.
C7_Determinism == (Ended /\ previous # <<>>) => previous[1] = Outcome

\* the row correspondence of the p-th key value
RowsOfKey(p) == FileRows(p - 1, key_values[p])
ColumnsOfType(type) ==
  {c \in Range(sorted_columns) : c.source.type = type /\ UniqueName(c.name)}
WarningsOfKind(kind) == {i \in DOMAIN warnings : warnings[i].kind = kind}
\* only a concat column without a text separator or a repeated column name
\* can make execute raise
RaisingConfig ==
  \/ \E c \in Range(sorted_columns) :
       c.source.type = "concat" /\ SeparatorOf(c.source).t # "text"
  \/ \E c \in Range(sorted_columns) : ~UniqueName(c.name)
\* while the rows are built every uniquely named column has one cell per
\* processed key
OneCellPerProcessedKey ==
  \A name \in DOMAIN output_data : UniqueName(name) => Len(output_data[name]) = idx

\* some operand after the first resolves to 0
ZeroDivisorOperand(c, p) ==
  /\ c.source.operation = "divide"
  /\ \E j \in 2..Len(c.source.operands) :
       OperandValues(c.source.operands[j], RowsOfKey(p)) = <<RatZero>>
\* some value after the first of the operand value list is 0
ZeroDivisorValue(c, p) ==
  /\ c.source.operation = "divide"
  /\ \E j \in 2..Len(MathValues(c.source.operands, RowsOfKey(p))) :
       MathValues(c.source.operands, RowsOfKey(p))[j].n = 0

\* C8 (as stated): a divide column one of whose operands after the first
\* resolves to 0 yields null for that cell.
C8_ZeroDivisorOperandGivesNull ==
  RowsResolved =>
    \A c \in ColumnsOfType("math") : \A p \in 1..idx :
      ZeroDivisorOperand(c, p) => output_data[c.name][p] = NullCell

\* C8 (amended): a divide column in whose operand value list (a literal
\* operand without a value adds no value to it) some value after the first is 0
\* yields null for that cell and exactly one warning for that cell, without
\* raising; the other columns of the row and the other rows are evaluated.
C8_ZeroDivisorValueGivesNull ==
  /\ RowsResolved =>
       /\ \A c \in ColumnsOfType("math") : \A p \in 1..idx :
            ZeroDivisorValue(c, p) => output_data[c.name][p] = NullCell
       /\ Cardinality(WarningsOfKind("division_by_zero")) =
            Cardinality({cp \in Range(sorted_columns) \X (1..idx) :
                           cp[1].source.type = "math" /\ ZeroDivisorValue(cp[1], cp[2])})
       /\ OneCellPerProcessedKey
       /\ (pc = "done" => idx = Len(key_values) /\ OneCellPerKey)
  /\ pc = "raised" => RaisingConfig

\* the first row divides by zero, the second does not, and the constant
\* column after the divide column is filled for both rows
C8_Witness ==
  /\ pc = "done"
  /\ \E c \in ColumnsOfType("math") :
       /\ ZeroDivisorValue(c, 1)
       /\ ~ZeroDivisorValue(c, 2)
       /\ output_df.data[c.name][1] = NullCell
       /\ output_df.data[c.name][2] # NullCell
  /\ Len(output_df.data["tag"]) = 2

IsColumnOperand(o) == o.type = "column" /\ o.fileId # NoFile /\ o.column # NoCol
RowAbsent(o, rows) == ~GetRow(rows, o.fileId).present
ColumnMissing(o, rows) ==
  GetRow(rows, o.fileId).present /\ ~InIndex(GetRow(rows, o.fileId), o.column)
\* no column of the row has the operand's name, compared exactly or trimmed
ColumnMissingTrimmed(o, rows) ==
  /\ GetRow(rows, o.fileId).present
  /\ \A i \in DOMAIN GetRow(rows, o.fileId).cols :
       /\ GetRow(rows, o.fileId).cols[i] # o.column
       /\ Strip(GetRow(rows, o.fileId).cols[i]) # Strip(o.column)
CellNull(o, rows) ==
  /\ GetRow(rows, o.fileId).present
  /\ InIndex(GetRow(rows, o.fileId), o.column)
  /\ IsNa(GetRow(rows, o.fileId).cells[o.column])
CellNonNumericText(o, rows) ==
  /\ GetRow(rows, o.fileId).present
  /\ InIndex(GetRow(rows, o.fileId), o.column)
  /\ GetRow(rows, o.fileId).cells[o.column].t = "text"
  /\ ~ToFloat(GetRow(rows, o.fileId).cells[o.column]).ok

Lenient(o, rows) ==
  IsColumnOperand(o) /\ (RowAbsent(o, rows) \/ ColumnMissing(o, rows)
                         \/ CellNull(o, rows) \/ CellNonNumericText(o, rows))
LenientTrimmed(o, rows) ==
  IsColumnOperand(o) /\ (RowAbsent(o, rows) \/ ColumnMissingTrimmed(o, rows)
                         \/ CellNull(o, rows) \/ CellNonNumericText(o, rows))

\* C9 (as stated): a column operand of a math column contributes 0.0 when the
\* row is absent, the column is missing from the row, the cell is null or the
\* cell is non-numeric text.
C9_LenientOperandIsZero ==
  RowsResolved =>
    \A c \in ColumnsOfType("math") : \A p \in 1..idx : \A j \in DOMAIN c.source.operands :
      Lenient(c.source.operands[j], RowsOfKey(p))
         => OperandValues(c.source.operands[j], RowsOfKey(p)) = <<RatZero>>

\* C9 (amended): a column operand of a math column contributes 0.0 when the
\* row is absent, the column is missing from the row under both the exact and
\* the whitespace-trimmed comparison of names, the cell is null or the cell is
\* non-numeric text; a column made only of such operands evaluates to 0.0 (and
\* is not null) unless it divides by one of them.
C9_LenientTrimmedOperandIsZero ==
  RowsResolved =>
    \A c \in ColumnsOfType("math") : \A p \in 1..idx :
      /\ \A j \in DOMAIN c.source.operands :
           LenientTrimmed(c.source.operands[j], RowsOfKey(p))
              => OperandValues(c.source.operands[j], RowsOfKey(p)) = <<RatZero>>
      /\ ( /\ c.source.operands # <<>>
           /\ \A j \in DOMAIN c.source.operands :
                LenientTrimmed(c.source.operands[j], RowsOfKey(p))
           /\ \/ c.source.operation \in {"add", "subtract", "multiply"}
              \/ c.source.operation = "divide" /\ Len(c.source.operands) = 1 )
         => output_data[c.name][p] = FloatCell(0, 1)

\* a sum of a non-numeric text cell and a column of a file without a row for
\* the key
C9_Witness ==
  /\ pc = "done"
  /\ \E c \in ColumnsOfType("math") : \E p \in 1..idx :
       /\ c.source.operation = "add"
       /\ \E j, k \in DOMAIN c.source.operands :
            /\ IsColumnOperand(c.source.operands[j])
            /\ RowAbsent(c.source.operands[j], RowsOfKey(p))
            /\ CellNonNumericText(c.source.operands[k], RowsOfKey(p))
       /\ \A j \in DOMAIN c.source.operands : LenientTrimmed(c.source.operands[j], RowsOfKey(p))
       /\ output_df.data[c.name][p] = FloatCell(0, 1)

\* what the claim expects one concat part to contribute
ExpectedPart(part, rows) ==
  IF part.type = "literal" THEN LiteralStr(part.value)
  ELSE IF ~IsColumnOperand(part) THEN <<>>
  ELSE IF RowAbsent(part, rows) \/ ColumnMissing(part, rows) \/ CellNull(part, rows) THEN <<>>
  ELSE Str(GetRow(rows, part.fileId).cells[part.column])

\* C10: in a concat column a column-ref part whose row is absent, whose
\* column is missing or whose cell is null contributes the empty string, and
\* the result of a concat column is always a string (the evaluation returns;
\* it does not raise).
C10_ConcatIsAlwaysString ==
  /\ (\E c \in Range(sorted_columns) : c.source.type = "concat") => pc # "raised"
  /\ RowsResolved =>
       \A c \in ColumnsOfType("concat") : \A p \in 1..idx :
         /\ output_data[c.name][p].t = "text"
         /\ output_data[c.name][p].s =
              Join(SeparatorOf(c.source).s,
                   [j \in DOMAIN c.source.parts |-> ExpectedPart(c.source.parts[j], RowsOfKey(p))])

\* no separator configured: the key is absent, or it is null
NoSeparatorConfigured(c) ==
  c.source.type = "concat" /\ (~c.source.hasSeparator \/ c.source.separator.t = "null")

\* C11: a concat column with no separator configured (the field absent, or
\* null as the workflow API persists it) joins its part contributions with
\* the empty string and returns a string; it never raises.
C11_NoSeparatorJoinsWithEmpty ==
  /\ (\E c \in Range(sorted_columns) : NoSeparatorConfigured(c)) => pc # "raised"
  /\ RowsResolved =>
       \A c \in ColumnsOfType("concat") : \A p \in 1..idx :
         NoSeparatorConfigured(c) =>
           output_data[c.name][p] =
             TextCell(Join(<<>>, ConcatParts(c.source.parts, RowsOfKey(p))))

ConfigWarningKinds == {"no_output_columns", "no_key_mappings", "primary_not_found", "no_files"}
EmptyResultWithWarning ==
  /\ pc = "early"
  /\ output_df = EmptyDf
  /\ warnings # <<>>
  /\ \A i \in DOMAIN warnings : warnings[i].kind \in ConfigWarningKinds
PrimaryAbsent == primary_file_id = NoFile \/ ~HasDf(dataframes, primary_file_id)

\* the four configuration errors, read without regard to the mode
ConfigErrorAsStated ==
  \/ config.outputColumns = <<>>
  \/ config.keyColumn.present /\ DOMAIN config.keyColumn.mappings = {}
  \/ PrimaryAbsent
  \/ config.files = <<>>

\* the configuration errors execute tests for: the primary file in keyed
\* mode, the first configured file in positional mode
ConfigErrorByMode ==
  \/ config.outputColumns = <<>>
  \/ config.keyColumn.present /\ DOMAIN config.keyColumn.mappings = {}
  \/ config.keyColumn.present /\ PrimaryAbsent
  \/ ~config.keyColumn.present
       /\ (config.files = <<>> \/ ~HasDf(dataframes, config.files[1].id))

\* C12 (as stated): with no output columns, no key mapping, the primary file
\* absent from the supplied tables, or no files configured, execute returns an
\* empty table and at least one warning and does not raise.
C12_ConfigErrorsAsStated == (pc # "idle" /\ ConfigErrorAsStated) => EmptyResultWithWarning

\* C12 (amended): with no output columns, a key column without mappings, in
\* keyed mode the primary file absent from the supplied tables, or in
\* positional mode no configured file or the first configured file absent from
\* the supplied tables, execute returns an empty table and at least one
\* warning and does not raise; nothing else makes execute return early with
\* one of these warnings.
C12_ConfigErrorsByMode ==
  /\ (pc # "idle" /\ ConfigErrorByMode) => EmptyResultWithWarning
  /\ (pc = "early" /\ ~ConfigErrorByMode) =>
       \A i \in DOMAIN warnings : warnings[i].kind \notin ConfigWarningKinds

\* execute has returned early for a workflow with output columns and no files
C12_Witness ==
  /\ pc = "early"
  /\ config.outputColumns # <<>>
  /\ config.files = <<>>
  /\ config.keyColumn.present
  /\ DOMAIN config.keyColumn.mappings # {}
  /\ warnings = <<SimpleWarning("primary_not_found")>>

\* the references of a source to a column of a file
ColumnRefsOf(source) ==
  IF source.type = "direct" THEN {[type |-> "column", fileId |-> source.fileId, column |-> source.column]}
  ELSE IF source.type = "math"
  THEN {[type |-> "column", fileId |-> o.fileId, column |-> o.column] :
          o \in {x \in Range(source.operands) : x.type = "column"}}
  ELSE IF source.type = "concat"
  THEN {[type |-> "column", fileId |-> o.fileId, column |-> o.column] :
          o \in {x \in Range(source.parts) : x.type = "column"}}
  ELSE {}

\* a default was substituted while row p was built
MissingColumnAt(c, p) ==
  \E o \in ColumnRefsOf(c.source) : IsColumnOperand(o) /\ ColumnMissing(o, RowsOfKey(p))
NonNumericAt(c, p) ==
  /\ c.source.type = "math"
  /\ \E j \in DOMAIN c.source.operands :
       /\ IsColumnOperand(c.source.operands[j])
       /\ CellNonNumericText(c.source.operands[j], RowsOfKey(p))
DivisionByZeroAt(c, p) == c.source.type = "math" /\ ZeroDivisorValue(c, p)
UnmatchedKeyAt(p) ==
  KeyedMode /\ \E i \in DOMAIN dataframes : Unmatched(dataframes[i], key_values[p])
DefaultSubstituted ==
  \E p \in 1..idx :
    \/ UnmatchedKeyAt(p)
    \/ \E c \in Range(sorted_columns) :
         MissingColumnAt(c, p) \/ NonNumericAt(c, p) \/ DivisionByZeroAt(c, p)

\* C13: whenever execute substitutes a default because of an unmatched key,
\* a source that references a column missing from the matched row, a
\* non-numeric value in a math operand, or a division by zero, the returned
\* warning list holds a warning, and the output table is still returned.
C13_SubstitutedDefaultsAreWarned ==
  /\ (pc = "done" /\ DefaultSubstituted) => warnings # <<>>
  /\ (pc = "raised" /\ DefaultSubstituted) => RaisingConfig

\* the keys of the key universe that match no row of a file, in key order
UnmatchedKeysOf(df) == SelectSeq(key_values, LAMBDA k : Unmatched(df, k))
AggregateWarningsOf(df) ==
  {i \in DOMAIN warnings :
     warnings[i].kind = "unmatched_keys" /\ warnings[i].file = FileName(df.id)}
FirstOf(s, n) == SubSeq(s, 1, IF Len(s) < n THEN Len(s) ELSE n)
\* the aggregate warning of a file that states count n of the unmatched keys u
IsAggregateWarning(w, u, n) ==
  /\ w.count = n
  /\ w.keys = FirstOf(u, SampleLimit)
  /\ w.more = IF n > SampleLimit THEN n - SampleLimit ELSE 0

\* C14 (as stated): after execute in keyed mode every file with an unmatched
\* key has exactly one aggregate warning that names it, states the count of
\* its unmatched keys and lists at most 5 of them, with the "(and N more...)"
\* suffix beyond 5; a file without unmatched key has none.
C14_AggregateStatesCount ==
  (pc = "done" /\ KeyedMode) =>
    \A d \in DOMAIN dataframes :
      LET u == UnmatchedKeysOf(dataframes[d])
          ws == AggregateWarningsOf(dataframes[d])
      IN IF u = <<>> THEN ws = {}
         ELSE /\ Cardinality(ws) = 1
              /\ \A i \in ws : IsAggregateWarning(warnings[i], u, Len(u))

\* C14 (amended): the count stated is the number of unmatched keys up to 10
\* (printed as "n+"), and the suffix counts the recorded keys beyond the 5
\* listed, so it never exceeds 5.
C14_AggregateStatesCappedCount ==
  (pc = "done" /\ KeyedMode) =>
    \A d \in DOMAIN dataframes :
      LET u == UnmatchedKeysOf(dataframes[d])
          ws == AggregateWarningsOf(dataframes[d])
      IN IF u = <<>> THEN ws = {}
         ELSE /\ Cardinality(ws) = 1
              /\ \A i \in ws :
                   IsAggregateWarning(warnings[i], u,
                                      IF Len(u) < UnmatchedCap THEN Len(u) ELSE UnmatchedCap)

\* Sales has more than 10 unmatched keys and Inventory none
C14_Witness ==
  /\ pc = "done"
  /\ KeyedMode
  /\ Len(UnmatchedKeysOf(dataframes[2])) > UnmatchedCap
  /\ UnmatchedKeysOf(dataframes[1]) = <<>>
  /\ \E i \in DOMAIN warnings :
       /\ warnings[i].kind = "unmatched_keys"
       /\ warnings[i].count = UnmatchedCap
       /\ Len(warnings[i].keys) = SampleLimit
       /\ warnings[i].more = UnmatchedCap - SampleLimit

\* a raise that comes from evaluating a cell, not from assembling the table
EvaluationRaises ==
  \E c \in Range(sorted_columns) :
    c.source.type = "concat" /\ SeparatorOf(c.source).t # "text"

\* C15: whenever execute reaches table assembly, for any list of
\* output-column definitions, the output table has its columns in ascending
\* order of the definitions, every output column holds exactly one cell per key
\* value, and the row count is the size of the key universe (so assembly does
\* not raise).
C15_TableShape ==
  /\ pc = "raised" => EvaluationRaises
  /\ pc = "done" =>
       /\ output_df.cols = [i \in DOMAIN sorted_columns |-> sorted_columns[i].name]
       /\ \A i, j \in DOMAIN sorted_columns :
            i < j => sorted_columns[i].order <= sorted_columns[j].order
       /\ \A i \in DOMAIN output_df.cols :
            Len(output_df.data[output_df.cols[i]]) = Len(key_values)

\* a call starts with none of the locals of the calls before it
FreshCall ==
  /\ key_values = <<>>
  /\ idx = 0
  /\ output_data = EmptyMap
  /\ unmatched_keys_by_file = EmptyMap
  /\ warnings = <<>>
  /\ output_df = EmptyDf
  /\ preview_result = <<>>
\* the key order does not come out of a set
OrderedKeys == ~(KeyedMode /\ join_type \in {"inner", "full"}) \/ Len(key_values) <= 1

ComparedCells ==
  {<<i, col>> : i \in 0..(Min({Len(original_df.rows), Len(modified_df.rows)}) - 1),
                col \in {original_df.cols[j] : j \in {j \in DOMAIN original_df.cols :
                                                    HasColumn(modified_df, original_df.cols[j])}}}
ReportsOf(i, col) == {k \in DOMAIN changes : changes[k].row = i /\ changes[k].column = col}
SameValue(a, b) ==
  \/ a.t = "text" /\ b.t = "text" /\ a.s = b.s
  \/ a.t \in {"int", "float"} /\ b.t \in {"int", "float"} /\ a.n * b.d = b.n * a.d

\* C17: compare_dataframes reports nothing for a cell that is null in both
\* tables and for a cell whose two values are the same, and exactly one
\* MODIFIED change carrying the old and the new value (null kept as null) for
\* every other cell present in both tables, a cell null on one side only
\* included; a table compared with itself gives no change.
C17_CompareReportsDifferences ==
  diff_pc = "compared" =>
    /\ \A cell \in ComparedCells :
         LET old == original_df.rows[cell[1] + 1][cell[2]]
             new == modified_df.rows[cell[1] + 1][cell[2]]
             reports == ReportsOf(cell[1], cell[2])
         IN IF (IsNa(old) /\ IsNa(new)) \/ SameValue(old, new)
            THEN reports = {}
            ELSE /\ Cardinality(reports) = 1
                 /\ \A k \in reports :
                      /\ changes[k].changeType = "modified"
                      /\ changes[k].oldValue = old
                      /\ changes[k].newValue = new
    /\ \A k \in DOMAIN changes : <<changes[k].row, changes[k].column>> \in ComparedCells
    /\ original_df = modified_df => changes = <<>>

\* a cell null in both tables is passed over, and a cell null only in the
\* original is reported with a null old value
C17_Witness ==
  /\ diff_pc = "compared"
  /\ \E cell \in ComparedCells :
       IsNa(original_df.rows[cell[1] + 1][cell[2]]) /\ IsNa(modified_df.rows[cell[1] + 1][cell[2]])
  /\ \E k \in DOMAIN changes : changes[k].oldValue = NullCell /\ changes[k].newValue # NullCell


\* --- C18 helpers
\* a number below zero, or text that reads as one
NumericBelowZero(v) ==
  \/ v.t \in {"int", "float"} /\ v.n < 0
  \/ v.t = "text" /\ ToFloat(v).ok /\ ToFloat(v).n < 0
Offending(cells) == {k \in DOMAIN cells : NumericBelowZero(cells[k].newValue)}
Max(S) == CHOOSE x \in S : \A y \in S : y <= x
RowIndices == {changes[k].row : k \in DOMAIN changes}
ChangedColumns == {changes[k].column : k \in DOMAIN changes}

\* C18: generate marks a row group hasWarning exactly when one of its cell
\* changes has a numeric new value below 0, emits one negative_value warning
\* with the row and the column for each such cell change and no other
\* warning, and gives the row the message of the last offending column in
\* change order (no message for a row without warning).
C18_NegativeValueWarnings ==
  diff_pc = "generated" =>
    LET result == diff_result[1]
    IN /\ \A g \in DOMAIN result.changes :
            LET group == result.changes[g]
                bad == Offending(group.cells)
            IN /\ group.hasWarning <=> bad # {}
               /\ group.warningMessage =
                    IF bad = {} THEN NoMessage
                    ELSE NegativeMessage(group.cells[Max(bad)].column)
       /\ \A w \in DOMAIN result.warnings : result.warnings[w].type = "negative_value"
       /\ \A row \in RowIndices, col \in ChangedColumns :
            Cardinality({w \in DOMAIN result.warnings :
                           result.warnings[w].row = row /\ result.warnings[w].column = col})
              = Cardinality({k \in DOMAIN changes :
                               /\ changes[k].row = row
                               /\ changes[k].column = col
                               /\ NumericBelowZero(changes[k].newValue)})
       /\ Len(result.warnings) = Cardinality(Offending(changes))

\* one row with two offending columns, the later one named in the message,
\* next to a row without warning
C18_Witness ==
  /\ diff_pc = "generated"
  /\ \E g, h \in DOMAIN diff_result[1].changes :
       LET group == diff_result[1].changes[g]
       IN /\ group.hasWarning
          /\ Len(group.cells) = 2
          /\ group.cells[1].column = ColQty /\ NumericBelowZero(group.cells[1].newValue)
          /\ group.cells[2].column = ColSold /\ NumericBelowZero(group.cells[2].newValue)
          /\ group.warningMessage = NegativeMessage(ColSold)
          /\ ~diff_result[1].changes[h].hasWarning
  /\ Len(diff_result[1].warnings) = 2


\* --- C19 helpers
RECURSIVE CellsIn(_)
CellsIn(groups) == IF groups = <<>> THEN 0 ELSE Len(Head(groups).cells) + CellsIn(Tail(groups))

\* C19: the summary generate returns has rowsAffected = the number of
\* distinct row indices among the changes = the number of row groups,
\* cellsModified = the length of the change list = the number of cells over
\* all row groups, totalRows = the row count of the modified table,
\* warnings = the length of the warning list, and errors = 0.
C19_SummaryCounts ==
  diff_pc = "generated" =>
    LET result == diff_result[1]
    IN /\ result.summary.rowsAffected = Cardinality({changes[k].row : k \in DOMAIN changes})
       /\ result.summary.rowsAffected = Len(result.changes)
       /\ result.summary.cellsModified = Len(changes)
       /\ result.summary.cellsModified = CellsIn(result.changes)
       /\ result.summary.totalRows = Len(modified_df.rows)
       /\ result.summary.warnings = Len(result.warnings)
       /\ result.summary.errors = 0

\* three changes on two rows of a one-row modified table, one of them
\* negative: every count of the summary is a different number
C19_Witness ==
  /\ diff_pc = "generated"
  /\ Len(changes) = 3
  /\ diff_result[1].summary.cellsModified = 3
  /\ diff_result[1].summary.rowsAffected = 2
  /\ diff_result[1].summary.totalRows = 1
  /\ diff_result[1].summary.warnings = 1


\* C20: a preview of a run for a stored workflow with two parseable files
\* answers with the run, and the runs table then holds that run with status
\* PREVIEW and the diff generate made of the engine's change list.
C20_PreviewStoresRun ==
  (response # <<>> /\ response[1].status # 404) =>
    /\ response[1].status = 200
    /\ runs # <<>>
    /\ runs[Len(runs)].status = "preview"
    /\ diff_result # <<>>
    /\ runs[Len(runs)].diff_summary = diff_result[1]


\* --- C21 helpers
\* the cell a direct column takes from the row at offset i of its file: null
\* when the file is not supplied, ends before that row or lacks the column
CellAtOffset(source, i) ==
  IF /\ HasDf(dataframes, source.fileId)
     /\ i < Len(GetDf(dataframes, source.fileId).rows)
     /\ HasColumn(GetDf(dataframes, source.fileId), source.column)
  THEN GetDf(dataframes, source.fileId).rows[i + 1][source.column]
  ELSE NullCell

\* C21: without a key-column configuration the key value of output row i is
\* the offset i, every supplied file contributes its row at offset i to that
\* output row and is absent for it when it has i or fewer rows, and a direct
\* column holds the cell of that row.
C21_PositionalCorrespondence ==
  (RowsResolved /\ ~KeyedMode) =>
    /\ \A p \in DOMAIN key_values : key_values[p] = p - 1
    /\ \A p \in 1..idx : \A k \in DOMAIN dataframes :
         LET row == RowsOfKey(p)[dataframes[k].id]
         IN IF p - 1 < Len(dataframes[k].rows)
            THEN row.present /\ row.cells = dataframes[k].rows[p]
            ELSE ~row.present
    /\ \A c \in ColumnsOfType("direct") : \A p \in 1..idx :
         output_data[c.name][p] = CellAtOffset(c.source, p - 1)

\* Sales is the first configured file and has two rows, Inventory has one:
\* the second output row has the second Sales cell and no Inventory key
C21_Witness ==
  /\ pc = "done" /\ ~KeyedMode
  /\ config.files = Files21
  /\ HasDf(dataframes, "F1")
  /\ Len(GetDf(dataframes, "F1").rows) = 1
  /\ key_values = <<0, 1>>
  /\ output_df.data["sold"] = <<IntCell(1), IntCell(2)>>
  /\ output_df.data["key"][1] = GetDf(dataframes, "F1").rows[1][ColId]
  /\ output_df.data["key"][1] # NullCell
  /\ output_df.data["key"][2] = NullCell


\* --- C22 helpers
\* sum and product of a list of values, taken from its end
RECURSIVE SumOf(_)
SumOf(vs) == IF vs = <<>> THEN RatZero ELSE RatAdd(SumOf(SubSeq(vs, 1, Len(vs) - 1)), vs[Len(vs)])
RECURSIVE ProductOf(_)
ProductOf(vs) ==
  IF vs = <<>> THEN RatOne ELSE RatMul(ProductOf(SubSeq(vs, 1, Len(vs) - 1)), vs[Len(vs)])

\* what the operation makes of a value list
FoldOf(operation, vs) ==
  IF vs = <<>> THEN NullCell
  ELSE CASE operation = "add" -> RatCell(SumOf(vs))
         [] operation = "subtract" -> RatCell(RatSub(vs[1], SumOf(Tail(vs))))
         [] operation = "multiply" -> RatCell(ProductOf(vs))
         [] operation = "divide" ->
              IF \E j \in 2..Len(vs) : vs[j].n = 0 THEN NullCell
              ELSE RatCell(RatDiv(vs[1], ProductOf(Tail(vs))))
         [] OTHER -> NullCell

\* a literal operand without a value
IsNullLiteral(o) == o.type = "literal" /\ o.value = NullCell
MathCellIsFold(c, p) ==
  output_data[c.name][p] = FoldOf(c.source.operation, MathValues(c.source.operands, RowsOfKey(p)))

\* C22 (as stated): a math column builds exactly one value per configured
\* operand, in operand order, and its cell is the fold of the operation over
\* that list (null for an unknown operation or an empty operand list).
C22_OneValuePerOperand ==
  RowsResolved =>
    \A c \in ColumnsOfType("math") : \A p \in 1..idx :
      /\ \A j \in DOMAIN c.source.operands :
           Len(OperandValues(c.source.operands[j], RowsOfKey(p))) = 1
      /\ MathCellIsFold(c, p)

\* C22 (amended): a math column builds one value per configured operand, in
\* operand order, except that a literal operand without a value adds none,
\* and its cell is the fold of the operation over that value list: the sum,
\* the first value minus every later one, the product, or the first value
\* divided by every later one and null as soon as a later value is 0; an
\* unknown operation, an empty operand list and an empty value list give null.
C22_FoldOverValueList ==
  RowsResolved =>
    \A c \in ColumnsOfType("math") : \A p \in 1..idx :
      /\ \A j \in DOMAIN c.source.operands :
           Len(OperandValues(c.source.operands[j], RowsOfKey(p))) =
             IF IsNullLiteral(c.source.operands[j]) THEN 0 ELSE 1
      /\ Len(MathValues(c.source.operands, RowsOfKey(p))) =
           Cardinality({j \in DOMAIN c.source.operands : ~IsNullLiteral(c.source.operands[j])})
      /\ MathCellIsFold(c, p)

\* a subtraction whose first operand is a literal without a value: the
\* quantity 6 is the only value and comes out unchanged
C22_Witness ==
  /\ pc = "done"
  /\ \E c \in ColumnsOfType("math") :
       /\ c.source.operation = "subtract"
       /\ Len(c.source.operands) = 2
       /\ IsNullLiteral(c.source.operands[1])
       /\ c.source.operands[2] = ColumnRef("F1", ColQty)
       /\ output_df.data[c.name][1] = FloatCell(6, 1)


\* --- C23 helpers
\* the rows of a keyed table whose key cell, as a trimmed string, is the
\* trimmed key
HitsOf(t, key) ==
  {i \in DOMAIN t.rows : Strip(Str(t.rows[i][KeyColOf(t)])) = Strip(key)}
FirstHit(t, key) == CHOOSE i \in HitsOf(t, key) : \A j \in HitsOf(t, key) : i <= j
\* the keys processed so far that hit no row of t, in processing order
ProcessedWithoutHit(t) ==
  SelectSeq(SubSeq(key_values, 1, idx), LAMBDA k : HitsOf(t, k) = {})

\* C23: in keyed mode the row a file with a usable key column contributes
\* for a key is its first row, in file order, whose key cell equals the key
\* once both are strings and trimmed, and a direct column takes its cell from
\* that row; without such a row the file is absent for the key, and the keys
\* recorded as unmatched for the file are the first 10 of those without a
\* row, in processing order.
C23_FirstMatchingRow ==
  (RowsResolved /\ KeyedMode) =>
    /\ \A t \in MappedTables : \A p \in 1..idx :
         LET row == RowsOfKey(p)[t.id]
         IN IF HitsOf(t, key_values[p]) = {}
            THEN ~row.present
            ELSE row.present /\ row.cells = t.rows[FirstHit(t, key_values[p])]
    /\ \A t \in MappedTables : \A c \in ColumnsOfType("direct") : \A p \in 1..idx :
         (c.source.fileId = t.id /\ HasColumn(t, c.source.column)) =>
           output_data[c.name][p] =
             IF HitsOf(t, key_values[p]) = {} THEN NullCell
             ELSE t.rows[FirstHit(t, key_values[p])][c.source.column]
    /\ \A t \in MappedTables :
         /\ Len(unmatched_keys_by_file[t.id]) <= 10
         /\ unmatched_keys_by_file[t.id] = FirstOf(ProcessedWithoutHit(t), 10)

\* Inventory writes the same key in two rows, once with blanks: the key
\* column of the output shows the cell of the first of them, and another key
\* is recorded as unmatched
C23_Witness ==
  /\ pc = "done" /\ KeyedMode
  /\ \E t \in MappedTables : \E p \in DOMAIN key_values :
       /\ t.id = "F1"
       /\ Cardinality(HitsOf(t, key_values[p])) = 2
       /\ \E i, j \in HitsOf(t, key_values[p]) : i < j /\ t.rows[i][ColId] # t.rows[j][ColId]
       /\ output_df.data["key"][p] = t.rows[FirstHit(t, key_values[p])][ColId]
  /\ \E t \in MappedTables : unmatched_keys_by_file[t.id] # <<>>


\* --- C24 helpers
\* the supplied files without an entry in the key mappings
UnmappedFiles ==
  {dataframes[k].id : k \in {j \in DOMAIN dataframes :
                               MapGet(config.keyColumn.mappings, dataframes[j].id) = NoCol}}
WarnsAboutMapping(f) ==
  \E i \in DOMAIN warnings : warnings[i].kind = "no_key_mapping" /\ warnings[i].file = f

\* C24: when key mappings are configured and a supplied file has no entry in
\* them, execute returns without raising and its warning list holds a
\* warning about the missing key-column mapping of that file.
C24_UnmappedFileIsWarned ==
  (Ended /\ KeyedMode /\ DOMAIN config.keyColumn.mappings # {}) =>
    /\ Returned
    /\ \A f \in UnmappedFiles : WarnsAboutMapping(f)


\* C25: a run under a join type that is none of inner, left, right, full,
\* or without a join configuration, ends as the run of the same
\* configuration with joinType left (and, without a join configuration, the
\* first configured file as primary) on the same tables ends: the same
\* output table, the same warning list, raising in neither or in both.
C25_UnknownJoinTypeIsLeft ==
  (Ended /\ calls = 2 /\ previous # <<>>) =>
    /\ config.joinConfig.present /\ config.joinConfig.joinType = "left"
    /\ previous[1].status = Outcome.status
    /\ previous[1].output_df = output_df
    /\ previous[1].warnings = warnings

\* both runs return two rows for the two Inventory keys and the same warning
\* about a key that Sales does not have
C25_Witness ==
  /\ pc = "done" /\ KeyedMode /\ calls = 2
  /\ previous # <<>>
  /\ previous[1].output_df = output_df
  /\ Len(key_values) = 2
  /\ HasDf(dataframes, "F2") /\ Len(GetDf(dataframes, "F2").rows) = 2
  /\ \E i \in DOMAIN previous[1].warnings : previous[1].warnings[i].kind = "unmatched_keys"


\* --- C26 helpers
\* the supplied tables without a usable key column: no entry in the
\* mappings, or an entry that names no column of the table
FallbackTables ==
  {dataframes[k] : k \in {j \in DOMAIN dataframes :
      \/ KeyColOf(dataframes[j]) = NoCol
      \/ ~HasColumn(dataframes[j], KeyColOf(dataframes[j]))}}

\* C26: in keyed mode a supplied file without a usable key column
\* contributes, for the i-th key of the key universe, its row at offset i and
\* is absent when it has i or fewer rows; a direct column takes its cell from
\* that row; no key is recorded as unmatched for the file and no
\* unmatched-key warning names it.
C26_PositionalFallback ==
  (RowsResolved /\ KeyedMode) =>
    \A t \in FallbackTables :
      /\ \A p \in 1..idx :
           LET row == RowsOfKey(p)[t.id]
           IN IF p - 1 < Len(t.rows)
              THEN row.present /\ row.cells = t.rows[p]
              ELSE ~row.present
      /\ \A c \in ColumnsOfType("direct") : \A p \in 1..idx :
           c.source.fileId = t.id => output_data[c.name][p] = CellAtOffset(c.source, p - 1)
      /\ unmatched_keys_by_file[t.id] = <<>>
      /\ \A i \in DOMAIN warnings :
           warnings[i].kind = "unmatched_keys" => warnings[i].file # FileName(t.id)

\* Sales has one row, with key B, and no usable key column: the first
\* Inventory key A gets the sold cell of that row, the second key gets none,
\* and nothing is reported
C26_Witness ==
  /\ pc = "done" /\ KeyedMode
  /\ \E t \in FallbackTables : t.id = "F2" /\ Len(t.rows) = 1 /\ t.rows[1][ColId] = KeyB
  /\ key_values = <<KeyA.s, KeyB.s>>
  /\ output_df.data["sold"] = <<IntCell(1), NullCell>>
  /\ warnings = <<>>


\* --- C27 helpers
\* the positions of the changes of one row in the change list, ascending
PositionsOfRow(row) == {k \in DOMAIN changes : changes[k].row = row}

\* C27: generate returns one row group per distinct row index of the change
\* list, in strictly ascending order of the row index; the cells of a group
\* are the changes of its row in the order they have in the change list, and
\* its keyValue is that of the first of them.
C27_GroupsAscendingAndStable ==
  diff_pc = "generated" =>
    LET groups == diff_result[1].changes
    IN /\ \A g, h \in DOMAIN groups : g < h => groups[g].rowIndex < groups[h].rowIndex
       /\ {groups[g].rowIndex : g \in DOMAIN groups} = RowIndices
       /\ \A g \in DOMAIN groups :
            LET positions == PositionsOfRow(groups[g].rowIndex)
            IN /\ Len(groups[g].cells) = Cardinality(positions)
               /\ \A n \in DOMAIN groups[g].cells :
                    groups[g].cells[n] = changes[NthOf(positions, n)]
               /\ groups[g].keyValue = changes[Min(positions)].keyValue

\* the change list names row 1 before row 0 and row 1 twice, in two columns:
\* row 0 comes first in the result and row 1 keeps its two changes in order
C27_Witness ==
  /\ diff_pc = "generated"
  /\ Len(changes) = 3
  /\ changes[1].row = 1 /\ changes[2].row = 0 /\ changes[3].row = 1
  /\ changes[1].column # changes[3].column
  /\ Len(diff_result[1].changes) = 2
  /\ diff_result[1].changes[1].rowIndex = 0
  /\ diff_result[1].changes[2].cells = <<changes[1], changes[3]>>
  /\ changes[1].keyValue # changes[3].keyValue
  /\ diff_result[1].changes[2].keyValue = changes[1].keyValue


\* --- C28 helpers
FirstConfiguredFile == IF config.files # <<>> THEN config.files[1].id ELSE NoFile
FirstFileSupplied == FirstConfiguredFile # NoFile /\ HasDf(dataframes, FirstConfiguredFile)

\* C28: without a key-column configuration (and with output columns) the
\* run has as many key values, and the output table as many rows, as the
\* first configured file has rows, whatever the lengths of the other files;
\* when the first configured file is not among the supplied tables the
\* result is the empty table with one warning.
C28_PositionalRowCount ==
  (pc # "idle" /\ ~KeyedMode /\ config.outputColumns # <<>>) =>
    IF FirstFileSupplied
    THEN /\ RowsResolved
         /\ Len(key_values) = Len(GetDf(dataframes, FirstConfiguredFile).rows)
         /\ pc = "done" =>
              /\ DfLen(output_df) = Len(GetDf(dataframes, FirstConfiguredFile).rows)
              /\ \A name \in DOMAIN output_df.data :
                   UniqueName(name) =>
                     Len(output_df.data[name]) = Len(GetDf(dataframes, FirstConfiguredFile).rows)
    ELSE /\ pc = "early"
         /\ output_df = EmptyDf
         /\ Len(warnings) = 1
         /\ warnings[1].kind = "no_files"

\* Inventory is the first configured file and has one row, Sales has two:
\* the output has one row and the second Sales cell is not in it
C28_Witness ==
  /\ pc = "done" /\ ~KeyedMode
  /\ config.files = Files12
  /\ HasDf(dataframes, "F1") /\ HasDf(dataframes, "F2")
  /\ Len(GetDf(dataframes, "F1").rows) = 1
  /\ Len(GetDf(dataframes, "F2").rows) = 2
  /\ output_df.data["sold"] = <<GetDf(dataframes, "F2").rows[1][ColSold]>>

\* --- C29 helpers
\* the last response answers a request of the given kind that named a row
\* of the runs table
Answers(r, request) ==
  /\ r # <<>>
  /\ "request" \in DOMAIN r[1]
  /\ r[1].request = request
  /\ r[1].run_id \in 1..Len(runs)
\* a step leaves every stored run in place, never touches a COMPLETED or
\* FAILED run, and changes a status only from PREVIEW to COMPLETED or FAILED
StatusStepIsOneWay ==
  \A i \in 1..Len(runs) :
    /\ i \in 1..Len(runs')
    /\ runs[i].status \in {COMPLETED, FAILED} => runs'[i] = runs[i]
    /\ runs'[i].status # runs[i].status =>
         /\ runs[i].status = PREVIEW
         /\ runs'[i].status \in {COMPLETED, FAILED}
\* an execute_run step on a stored run: on a run that is not PREVIEW it
\* answers 400 and changes nothing; where it changes the run, the run was
\* PREVIEW and is COMPLETED with a 200 or FAILED with a 500
ExecuteStepAsStated ==
  Answers(response', "execute") =>
    LET id == response'[1].run_id
    IN /\ runs[id].status # PREVIEW =>
            /\ response'[1].status = 400
            /\ runs' = runs
            /\ audit_log' = audit_log
       /\ runs' # runs =>
            /\ runs[id].status = PREVIEW
            /\ \/ response'[1].status = 200 /\ runs'[id].status = COMPLETED
               \/ response'[1].status = 500 /\ runs'[id].status = FAILED
            /\ \A j \in 1..Len(runs) : j # id => runs'[j] = runs[j]
\* a download_output that served a file named a COMPLETED run
DownloadOnlyCompleted ==
  (Answers(response, "download") /\ response[1].status = 200) =>
    runs[response[1].run_id].status = COMPLETED

\* C29: run status is one-way: over any sequence of preview_run, execute_run
\* and download_output requests a COMPLETED or FAILED run never changes
\* again, execute_run changes only a PREVIEW run (to COMPLETED on success, to
\* FAILED on an exception) and answers an error without changing anything
\* for any other run, and download_output serves a file only for a
\* COMPLETED run
C29_RunStatusOneWay ==
  /\ [][StatusStepIsOneWay /\ ExecuteStepAsStated]_vars
  /\ []DownloadOnlyCompleted
\* execute_run has just failed a PREVIEW run next to a COMPLETED one
C29_Witness ==
  /\ Len(runs) = 2
  /\ response = Reply("execute", 1, 500)
  /\ runs[1].status = FAILED
  /\ runs[2].status = COMPLETED

\* --- C30 helpers
\* the stored tables of the workflow API
StoredRecords == <<workflows, runs, audit_log>>
\* the request of `user` names a stored workflow of somebody else, or a
\* stored run of that workflow that is somebody else's
NamesForeignWorkflow(user, workflow_id) ==
  workflow_id \in DOMAIN workflows /\ workflows[workflow_id].user_id # user
NamesForeignRun(user, workflow_id, run_id) ==
  /\ run_id \in 1..Len(runs)
  /\ runs[run_id].workflow_id = workflow_id
  /\ runs[run_id].user_id # user
\* the step answers a request on a workflow or run that is not the
\* requester's: 404, and no stored record changes
ForeignRequestIs404 ==
  LET r == response'[1]
  IN /\ (r.request \in {"get", "update", "delete", "run", "result", "download"}
           /\ NamesForeignWorkflow(r.user, r.workflow_id)) =>
          (r.status = 404 /\ StoredRecords' = StoredRecords)
     /\ (r.request \in {"result", "download"}
           /\ NamesForeignRun(r.user, r.workflow_id, r.run_id)) =>
          (r.status = 404 /\ StoredRecords' = StoredRecords)
\* whatever a step changes or returns belongs to the requester
OnlyOwnRecords ==
  LET r == response'[1]
  IN /\ \A w \in DOMAIN workflows :
          workflows[w].user_id # r.user => (w \in DOMAIN workflows' /\ workflows'[w] = workflows[w])
     /\ \A i \in 1..Len(runs) : i \in 1..Len(runs') /\ runs'[i] = runs[i]
     /\ \A i \in (Len(runs) + 1)..Len(runs') : runs'[i].user_id = r.user
     /\ r.request = "list" => \A w \in r.body : workflows[w].user_id = r.user
     /\ (r.status = 200 /\ r.request \in {"get", "update", "delete", "run"}) =>
          workflows[r.workflow_id].user_id = r.user
     /\ (r.status = 200 /\ r.request \in {"result", "download"}) =>
          runs[r.run_id].user_id = r.user
\* a successful update raises the version by exactly 1
UpdateRaisesVersionByOne ==
  LET r == response'[1]
  IN (r.request = "update" /\ r.status = 200) =>
       /\ workflows'[r.workflow_id].version = workflows[r.workflow_id].version + 1
       /\ r.body.version = workflows[r.workflow_id].version + 1

\* C30: ownership isolation in the workflow API: over any sequence of
\* create, list, get, update, delete, run, result and download requests by
\* several users, a request that names a workflow, or a run of it, whose
\* user_id is not the requester's is answered 404 and changes no stored
\* workflow, run or audit record, list returns only the requester's own
\* workflows, and a successful update raises the version by exactly 1
C30_OwnershipIsolation ==
  [][ForeignRequestIs404 /\ OnlyOwnRecords /\ UpdateRaisesVersionByOne]_vars
\* U2 has just been refused the update of a workflow of U1 that U1 had
\* updated and run before
C30_Witness ==
  /\ response # <<>>
  /\ response[1].request = "update"
  /\ response[1].user = "U2"
  /\ response[1].status = 404
  /\ response[1].workflow_id \in DOMAIN workflows
  /\ workflows[response[1].workflow_id] = WorkflowRow("U1", 2)
  /\ \E i \in 1..Len(runs) :
       runs[i].workflow_id = response[1].workflow_id /\ runs[i].user_id = "U1"

====
